---------------------------- MODULE Spec2Model ----------------------------
(***************************************************************************)
(* Model of the prompt interpreter of SolidworksPromptApp.py.              *)
(*                                                                         *)
(* A prompt is a sequence of one-character strings.  The regular           *)
(* expressions of the source are translated into matchers over such        *)
(* sequences that follow Python's re semantics (leftmost match, greedy     *)
(* quantifiers, ordered alternation with backtracking).                    *)
(*                                                                         *)
(* Python floats are modelled as exact fixed-point integers:               *)
(*   - the value of a numeric literal is held in units of 1/FloatScale,    *)
(*   - a length in meters is held in units of 1/Meter of a meter.          *)
(* Every factor of UNIT_TO_METERS and every literal default of the parser  *)
(* is an integer in these units, and so are diameter / 2 and outer * 0.4   *)
(* for literals of at most two fractional digits.                          *)
(***************************************************************************)
EXTENDS Integers, Sequences, FiniteSets, TLC

VARIABLES prompt,   \* the text handed to parse_prompt
          parsed,   \* the value parse_prompt returned (NoneShape for None)
          pc        \* "ready" before the call, "done" after it

\* a call of convert_to_meters, of detect_units or of extract_dimension
VARIABLES given_value,  \* the number handed to convert_to_meters
          given_unit,   \* the unit handed to convert_to_meters
          given_keywords, \* the keywords handed to extract_dimension
          meters,       \* the value convert_to_meters or extract_dimension returned
          detected      \* the unit detect_units returned

\* concurrent calls of parse_prompt
VARIABLES thread,   \* of each thread: its prompt, where its call is, the value returned
          frame     \* the local variables of each call

\* a call of process_prompt on a SolidWorksApp
VARIABLES sw,       \* the SolidWorksApp: its field model (None or a document)
          host,     \* SolidWorks: the documents it created and the calls it received
          outcome   \* the pair process_prompt returned

\* a SolidWorksCreator and the SolidWorks it drives
VARIABLES model,                \* None or the current document
          _stacking,
          _stack_height,
          _last_shape_height,
          _plane_height,        \* None or the height of the active plane
          documents,            \* of each document: the heights of its solids and planes
          call,                 \* the last call on the creator and what it did
          last_mode_call,       \* begin_stack or reset, whichever was called last
          plane_since_reset     \* a plane was created since the last reset

parserVars == <<prompt, parsed, pc>>
unitVars == <<given_value, given_unit, given_keywords, meters, detected>>
threadVars == <<thread, frame>>
appVars == <<sw, host, outcome>>
creatorVars == <<model, _stacking, _stack_height, _last_shape_height, _plane_height,
                 documents, call, last_mode_call, plane_since_reset>>
vars == <<parserVars, unitVars, threadVars, appVars, creatorVars>>

-----------------------------------------------------------------------------
(* String literals of the source, as character sequences.                  *)
\* lit.<word> is the string literal '<word>' of the source (dquote is '"',
\* sp_in_sp is ' in ', l_dash_shape is 'l-shape', l_sp_shape is 'l shape',
\* two_d is '2d', eq is '=', colon is ':')
lit ==
    [ mm |-> <<"m", "m">>,
      millimeter |-> <<"m", "i", "l", "l", "i", "m", "e", "t", "e", "r">>,
      millimeters |-> <<"m", "i", "l", "l", "i", "m", "e", "t", "e", "r", "s">>,
      cm |-> <<"c", "m">>,
      centimeter |-> <<"c", "e", "n", "t", "i", "m", "e", "t", "e", "r">>,
      centimeters |-> <<"c", "e", "n", "t", "i", "m", "e", "t", "e", "r", "s">>,
      m |-> <<"m">>,
      meter |-> <<"m", "e", "t", "e", "r">>,
      meters |-> <<"m", "e", "t", "e", "r", "s">>,
      in |-> <<"i", "n">>,
      inch |-> <<"i", "n", "c", "h">>,
      inches |-> <<"i", "n", "c", "h", "e", "s">>,
      dquote |-> <<"\"">>,
      ft |-> <<"f", "t">>,
      foot |-> <<"f", "o", "o", "t">>,
      feet |-> <<"f", "e", "e", "t">>,
      sp_in_sp |-> <<" ", "i", "n", " ">>,
      two_d |-> <<"2", "d">>,
      sketch |-> <<"s", "k", "e", "t", "c", "h">>,
      draw |-> <<"d", "r", "a", "w">>,
      flat |-> <<"f", "l", "a", "t">>,
      cylinder |-> <<"c", "y", "l", "i", "n", "d", "e", "r">>,
      cylindrical |-> <<"c", "y", "l", "i", "n", "d", "r", "i", "c", "a", "l">>,
      tube |-> <<"t", "u", "b", "e">>,
      pipe |-> <<"p", "i", "p", "e">>,
      cube |-> <<"c", "u", "b", "e">>,
      box |-> <<"b", "o", "x">>,
      rectangular |-> <<"r", "e", "c", "t", "a", "n", "g", "u", "l", "a", "r">>,
      prism |-> <<"p", "r", "i", "s", "m">>,
      block |-> <<"b", "l", "o", "c", "k">>,
      hexagon |-> <<"h", "e", "x", "a", "g", "o", "n">>,
      hex |-> <<"h", "e", "x">>,
      triangle |-> <<"t", "r", "i", "a", "n", "g", "l", "e">>,
      pentagon |-> <<"p", "e", "n", "t", "a", "g", "o", "n">>,
      octagon |-> <<"o", "c", "t", "a", "g", "o", "n">>,
      ellipse |-> <<"e", "l", "l", "i", "p", "s", "e">>,
      oval |-> <<"o", "v", "a", "l">>,
      circle |-> <<"c", "i", "r", "c", "l", "e">>,
      square |-> <<"s", "q", "u", "a", "r", "e">>,
      rectangle |-> <<"r", "e", "c", "t", "a", "n", "g", "l", "e">>,
      rect |-> <<"r", "e", "c", "t">>,
      slot |-> <<"s", "l", "o", "t">>,
      washer |-> <<"w", "a", "s", "h", "e", "r">>,
      ring |-> <<"r", "i", "n", "g">>,
      donut |-> <<"d", "o", "n", "u", "t">>,
      annulus |-> <<"a", "n", "n", "u", "l", "u", "s">>,
      l_dash_shape |-> <<"l", "-", "s", "h", "a", "p", "e">>,
      lshape |-> <<"l", "s", "h", "a", "p", "e">>,
      l_sp_shape |-> <<"l", " ", "s", "h", "a", "p", "e">>,
      cross |-> <<"c", "r", "o", "s", "s">>,
      plus |-> <<"p", "l", "u", "s">>,
      star |-> <<"s", "t", "a", "r">>,
      radius |-> <<"r", "a", "d", "i", "u", "s">>,
      r |-> <<"r">>,
      diameter |-> <<"d", "i", "a", "m", "e", "t", "e", "r">>,
      dia |-> <<"d", "i", "a">>,
      d |-> <<"d">>,
      height |-> <<"h", "e", "i", "g", "h", "t">>,
      tall |-> <<"t", "a", "l", "l">>,
      long |-> <<"l", "o", "n", "g">>,
      h |-> <<"h">>,
      side |-> <<"s", "i", "d", "e">>,
      size |-> <<"s", "i", "z", "e">>,
      length |-> <<"l", "e", "n", "g", "t", "h">>,
      width |-> <<"w", "i", "d", "t", "h">>,
      wide |-> <<"w", "i", "d", "e">>,
      w |-> <<"w">>,
      depth |-> <<"d", "e", "p", "t", "h">>,
      deep |-> <<"d", "e", "e", "p">>,
      l |-> <<"l">>,
      thick |-> <<"t", "h", "i", "c", "k">>,
      base |-> <<"b", "a", "s", "e">>,
      b |-> <<"b">>,
      extrude |-> <<"e", "x", "t", "r", "u", "d", "e">>,
      major |-> <<"m", "a", "j", "o", "r">>,
      a |-> <<"a">>,
      minor |-> <<"m", "i", "n", "o", "r">>,
      short |-> <<"s", "h", "o", "r", "t">>,
      s |-> <<"s">>,
      outer |-> <<"o", "u", "t", "e", "r">>,
      outside |-> <<"o", "u", "t", "s", "i", "d", "e">>,
      od |-> <<"o", "d">>,
      inner |-> <<"i", "n", "n", "e", "r">>,
      inside |-> <<"i", "n", "s", "i", "d", "e">>,
      id |-> <<"i", "d">>,
      hole |-> <<"h", "o", "l", "e">>,
      t |-> <<"t">>,
      arm |-> <<"a", "r", "m">>,
      of |-> <<"o", "f">>,
      eq |-> <<"=">>,
      colon |-> <<":">>,
      x |-> <<"x">>,
      point |-> <<"p", "o", "i", "n", "t">> ]
-----------------------------------------------------------------------------
(* Fixed-point representation of floats.                                   *)
FloatScale == 100
Meter == 10000000

\* Python None for an optional float, and truthiness of an optional float
\* (None and 0.0 are both falsy).
None == -1
Truthy(v) == v # None /\ v # 0
Or(a, b) == IF Truthy(a) THEN a ELSE b

\* the assignment of a local variable: Body applied to the value, which is
\* computed once
With(value, Body(_)) == CHOOSE result \in {Body(v) : v \in {value}} : TRUE

-----------------------------------------------------------------------------
(* Characters.                                                             *)
Digits == {"0", "1", "2", "3", "4", "5", "6", "7", "8", "9"}
UpperCase == {"A", "B", "C", "D", "E", "F", "G", "H", "I", "J", "K", "L", "M",
              "N", "O", "P", "Q", "R", "S", "T", "U", "V", "W", "X", "Y", "Z"}

IsDigit(c) == c \in Digits
IsSpace(c) == c = " "

DigitVal(c) ==
    CASE c = "0" -> 0 [] c = "1" -> 1 [] c = "2" -> 2 [] c = "3" -> 3
      [] c = "4" -> 4 [] c = "5" -> 5 [] c = "6" -> 6 [] c = "7" -> 7
      [] c = "8" -> 8 [] c = "9" -> 9

\* str.lower()
ToLowerCase ==
    [c \in UpperCase |->
        CASE c = "A" -> "a" [] c = "B" -> "b" [] c = "C" -> "c" [] c = "D" -> "d"
          [] c = "E" -> "e" [] c = "F" -> "f" [] c = "G" -> "g" [] c = "H" -> "h"
          [] c = "I" -> "i" [] c = "J" -> "j" [] c = "K" -> "k" [] c = "L" -> "l"
          [] c = "M" -> "m" [] c = "N" -> "n" [] c = "O" -> "o" [] c = "P" -> "p"
          [] c = "Q" -> "q" [] c = "R" -> "r" [] c = "S" -> "s" [] c = "T" -> "t"
          [] c = "U" -> "u" [] c = "V" -> "v" [] c = "W" -> "w" [] c = "X" -> "x"
          [] c = "Y" -> "y" [] c = "Z" -> "z"]
LowerChar(c) == IF c \in UpperCase THEN ToLowerCase[c] ELSE c
Lower(s) == [i \in 1..Len(s) |-> LowerChar(s[i])]

\* str.strip()
RECURSIVE LStripFrom(_, _)
LStripFrom(s, i) == IF i <= Len(s) /\ IsSpace(s[i]) THEN LStripFrom(s, i + 1) ELSE i
RECURSIVE RStripFrom(_, _)
RStripFrom(s, i) == IF i >= 1 /\ IsSpace(s[i]) THEN RStripFrom(s, i - 1) ELSE i
Strip(s) == SubSeq(s, LStripFrom(s, 1), RStripFrom(s, Len(s)))

\* str.rstrip('.')
RECURSIVE RStripDotFrom(_, _)
RStripDotFrom(s, i) == IF i >= 1 /\ s[i] = "." THEN RStripDotFrom(s, i - 1) ELSE i
RStripDot(s) == SubSeq(s, 1, RStripDotFrom(s, Len(s)))

\* the literal w occurs in s at position i
Is(s, i, w) ==
    /\ i + Len(w) - 1 <= Len(s)
    /\ s[i] = w[1]
    /\ \A k \in 2..Len(w) : s[i + k - 1] = w[k]

\* Python's   w in s
Contains(s, w) == \E i \in 1..(Len(s) - Len(w) + 1) : Is(s, i, w)

\* any(word in s for word in ws)
ContainsAny(s, ws) == \E n \in 1..Len(ws) : Contains(s, ws[n])

-----------------------------------------------------------------------------
(* Unit conversion.                                                        *)

\* an inch of 25 millimeters
UNIT_TO_METERS_inch_25mm(unit) ==
    CASE unit = lit.mm \/ unit = lit.millimeter \/ unit = lit.millimeters -> Meter \div 1000
      [] unit = lit.cm \/ unit = lit.centimeter \/ unit = lit.centimeters -> Meter \div 100
      [] unit = lit.m \/ unit = lit.meter \/ unit = lit.meters -> Meter
      [] unit = lit.in \/ unit = lit.inch \/ unit = lit.inches \/ unit = lit.dquote
            -> (Meter \div 10000) * 250
      [] unit = lit.ft \/ unit = lit.foot \/ unit = lit.feet -> (Meter \div 10000) * 3048
      [] OTHER -> Meter \div 1000

\* UNIT_TO_METERS.get(unit, 0.001), in units of 1/Meter
UNIT_TO_METERS(unit) ==
    CASE unit = lit.mm \/ unit = lit.millimeter \/ unit = lit.millimeters -> Meter \div 1000
      [] unit = lit.cm \/ unit = lit.centimeter \/ unit = lit.centimeters -> Meter \div 100
      [] unit = lit.m \/ unit = lit.meter \/ unit = lit.meters -> Meter
      [] unit = lit.in \/ unit = lit.inch \/ unit = lit.inches \/ unit = lit.dquote
            -> (Meter \div 10000) * 254
      [] unit = lit.ft \/ unit = lit.foot \/ unit = lit.feet -> (Meter \div 10000) * 3048
      [] OTHER -> Meter \div 1000

\* value is in units of 1/FloatScale, the result in units of 1/Meter
convert_to_meters(value, unit) ==
    value * (UNIT_TO_METERS(RStripDot(Strip(Lower(unit)))) \div FloatScale)

detect_units(p) ==
    With(Lower(p), LAMBDA prompt_lower :
        IF ContainsAny(prompt_lower, <<lit.inch, lit.inches, lit.dquote, lit.sp_in_sp>>) THEN lit.in
        ELSE IF Contains(prompt_lower, lit.cm) \/ Contains(prompt_lower, lit.centimeter) THEN lit.cm
        ELSE IF Contains(prompt_lower, lit.ft) \/ Contains(prompt_lower, lit.feet) THEN lit.ft
        ELSE lit.mm)

-----------------------------------------------------------------------------
(* Pieces of the regular expressions.                                      *)

\* \s*  from position i: the position after the spaces
RECURSIVE SkipSpaces(_, _)
SkipSpaces(s, i) == IF i <= Len(s) /\ IsSpace(s[i]) THEN SkipSpaces(s, i + 1) ELSE i

\* \d*  from position i: the position after the digits
RECURSIVE SkipDigits(_, _)
SkipDigits(s, i) == IF i <= Len(s) /\ IsDigit(s[i]) THEN SkipDigits(s, i + 1) ELSE i

HasDigit(s, i) == i <= Len(s) /\ IsDigit(s[i])

\* a group that takes a second dot and the digits behind it
NumberEnd_second_dot(s, i) ==
    With(SkipDigits(s, i), LAMBDA e1 :
        IF e1 <= Len(s) /\ s[e1] = "."
        THEN With(SkipDigits(s, e1 + 1), LAMBDA e2 :
                IF e2 <= Len(s) /\ s[e2] = "." THEN SkipDigits(s, e2 + 1) ELSE e2)
        ELSE e1)

\* (\d+\.?\d*)  from a digit at position i, greedy: the position after it.
\* A shorter match of the group is never followed by a space, a unit or a
\* keyword (it is followed by a digit or a dot), so backtracking into the
\* group cannot turn a failed match into a successful one.
NumberEnd(s, i) ==
    With(SkipDigits(s, i), LAMBDA e1 :
        IF e1 <= Len(s) /\ s[e1] = "." THEN SkipDigits(s, e1 + 1) ELSE e1)

\* int(s[i..e-1]) for a run of digits
RECURSIVE int(_, _, _)
int(s, i, e) == IF e <= i THEN 0 ELSE int(s, i, e - 1) * 10 + DigitVal(s[e - 1])

\* float(s[i..e-1]) for a match of (\d+\.?\d*), in units of 1/FloatScale
\* (two fractional digits are kept)
float(s, i, e) ==
    With(SkipDigits(s, i), LAMBDA d :
        int(s, i, d) * FloatScale
        + (IF e - d - 1 <= 0 THEN 0
           ELSE IF e - d - 1 = 1 THEN DigitVal(s[d + 1]) * (FloatScale \div 10)
           ELSE int(s, d + 1, d + 3)))

\* int(s[i..e-1]) raises ValueError unless the text is a run of digits
int_raises(s, i, e) == e <= i \/ \E k \in i..(e - 1) : ~IsDigit(s[k])

\* float(s[i..e-1]) raises ValueError unless the text, made of digits and
\* dots, has a digit and at most one dot
float_raises(s, i, e) ==
    \/ e <= i
    \/ \E k \in i..(e - 1) : ~(IsDigit(s[k]) \/ s[k] = ".")
    \/ ~(\E k \in i..(e - 1) : IsDigit(s[k]))
    \/ Cardinality({k \in i..(e - 1) : s[k] = "."}) > 1

\* (mm|cm|m|in|inch|inches|ft|feet|foot|")
unit_pattern == <<lit.mm, lit.cm, lit.m, lit.in, lit.inch, lit.inches, lit.ft, lit.feet, lit.foot, lit.dquote>>

\* the optional unit group with nothing required after it: the first
\* alternative that matches at position j, <<>> when none does
UnitAt(s, j) ==
    IF \E n \in 1..Len(unit_pattern) : Is(s, j, unit_pattern[n])
    THEN unit_pattern[CHOOSE n \in 1..Len(unit_pattern) :
                        /\ Is(s, j, unit_pattern[n])
                        /\ \A m \in 1..(n - 1) : ~Is(s, j, unit_pattern[m])]
    ELSE <<>>

NoMatch == [found |-> FALSE]

\* (?:of|=|:)?  at position j: the position after it
SeparatorEnd(s, j) ==
    IF Is(s, j, lit.of) THEN j + Len(lit.of)
    ELSE IF Is(s, j, lit.eq) \/ Is(s, j, lit.colon) THEN j + 1
    ELSE j

\* keyword\s*(?:of|=|:)?\s*(\d+\.?\d*)\s*unit?   anchored at position i
Pattern1At(s, i, keyword) ==
    IF ~Is(s, i, keyword) THEN NoMatch
    ELSE With(SkipSpaces(s, i + Len(keyword)), LAMBDA j :
         With(SkipSpaces(s, SeparatorEnd(s, j)), LAMBDA n :
            IF ~HasDigit(s, n) THEN NoMatch
            ELSE With(NumberEnd(s, n), LAMBDA e :
                    [found |-> TRUE, value |-> float(s, n, e),
                     unit |-> UnitAt(s, SkipSpaces(s, e))])))

\* unit\s*keyword  at position j, for the n-th unit alternative
UnitKeywordAt(s, j, n, keyword) ==
    /\ Is(s, j, unit_pattern[n])
    /\ Is(s, SkipSpaces(s, j + Len(unit_pattern[n])), keyword)

\* \s*unit?\s*keyword  after the number: the unit alternatives are tried in
\* order, each followed by \s*keyword, then the empty unit
UnitThenKeyword(s, e, keyword) ==
    With(SkipSpaces(s, e), LAMBDA j :
        IF \E n \in 1..Len(unit_pattern) : UnitKeywordAt(s, j, n, keyword)
        THEN [found |-> TRUE,
              unit |-> unit_pattern[CHOOSE n \in 1..Len(unit_pattern) :
                                      /\ UnitKeywordAt(s, j, n, keyword)
                                      /\ \A m \in 1..(n - 1) : ~UnitKeywordAt(s, j, m, keyword)]]
        ELSE IF Is(s, j, keyword) THEN [found |-> TRUE, unit |-> <<>>]
        ELSE NoMatch)

\* (\d+\.?\d*)\s*unit?\s*keyword   anchored at position i
Pattern2At(s, i, keyword) ==
    IF ~HasDigit(s, i) THEN NoMatch
    ELSE With(NumberEnd(s, i), LAMBDA e :
         With(UnitThenKeyword(s, e, keyword), LAMBDA t :
            IF t.found
            THEN [found |-> TRUE, value |-> float(s, i, e), unit |-> t.unit]
            ELSE NoMatch))

\* the least of a set of positions, 0 when there is none
Leftmost(ps) == IF ps = {} THEN 0 ELSE CHOOSE i \in ps : \A j \in ps : i <= j

\* re.search: the match at the leftmost position where the pattern matches
Search1(s, keyword) ==
    With(Leftmost({k \in 1..Len(s) : Pattern1At(s, k, keyword).found}), LAMBDA i :
        IF i = 0 THEN NoMatch ELSE Pattern1At(s, i, keyword))

Search2(s, keyword) ==
    With(Leftmost({k \in 1..Len(s) : Pattern2At(s, k, keyword).found}), LAMBDA i :
        IF i = 0 THEN NoMatch ELSE Pattern2At(s, i, keyword))

\* a slip: the value-first pattern is tried before the keyword-first one
RECURSIVE FirstKeywordMatch_value_first(_, _, _)
FirstKeywordMatch_value_first(s, keywords, n) ==
    IF n > Len(keywords) THEN NoMatch
    ELSE With(Search2(s, keywords[n]), LAMBDA m2 :
            IF m2.found THEN m2
            ELSE With(Search1(s, keywords[n]), LAMBDA m1 :
                    IF m1.found THEN m1
                    ELSE FirstKeywordMatch_value_first(s, keywords, n + 1)))
\* the first match over the keywords in order, pattern 1 before pattern 2
RECURSIVE FirstKeywordMatch(_, _, _)
FirstKeywordMatch(s, keywords, n) ==
    IF n > Len(keywords) THEN NoMatch
    ELSE With(Search1(s, keywords[n]), LAMBDA m1 :
            IF m1.found THEN m1
            ELSE With(Search2(s, keywords[n]), LAMBDA m2 :
                    IF m2.found THEN m2
                    ELSE FirstKeywordMatch(s, keywords, n + 1)))

extract_dimension(p, keywords) ==
    With(Lower(p), LAMBDA prompt_lower :
    With(FirstKeywordMatch(prompt_lower, keywords, 1), LAMBDA match :
        IF match.found
        THEN convert_to_meters(match.value,
                               IF match.unit # <<>> THEN match.unit ELSE detect_units(p))
        ELSE None))

\* re.findall of (\d+\.?\d*)\s*unit? : non-overlapping matches, left to right
RECURSIVE FindAllNumbers(_, _, _)
FindAllNumbers(s, from, default_unit) ==
    With(Leftmost({k \in from..Len(s) : IsDigit(s[k])}), LAMBDA i :
        IF i = 0 THEN <<>>
        ELSE With(NumberEnd(s, i), LAMBDA e :
             With(SkipSpaces(s, e), LAMBDA j :
             With(UnitAt(s, j), LAMBDA unit :
                <<convert_to_meters(float(s, i, e),
                                    IF unit # <<>> THEN unit ELSE default_unit)>>
                \o FindAllNumbers(s, j + Len(unit), default_unit)))))

extract_all_numbers(p) ==
    With(Lower(p), LAMBDA prompt_lower :
    With(detect_units(p), LAMBDA default_unit :
        FindAllNumbers(prompt_lower, 1, default_unit)))
-----------------------------------------------------------------------------
(* The parser.                                                             *)

ParsedShape(shape_type, params, units, is_2d) ==
    [shape_type |-> shape_type, params |-> params, units |-> units, is_2d |-> is_2d]

\* the None that parse_prompt returns
NoneShape == [shape_type |-> "None"]

\* (\d+\.?\d*)\s*x\s*  anchored at a digit at position i: the end of the
\* number and the position after the x and the spaces, 0 when there is no x
NumberThenX(s, i) ==
    With(NumberEnd(s, i), LAMBDA e :
    With(SkipSpaces(s, e), LAMBDA x :
        [end |-> e, next |-> IF Is(s, x, lit.x) THEN SkipSpaces(s, x + 1) ELSE 0]))

\* (\d+\.?\d*)\s*x\s*(\d+\.?\d*)\s*x\s*(\d+\.?\d*)   anchored at position i
AxBxCAt(s, i) ==
    IF ~HasDigit(s, i) THEN NoMatch
    ELSE With(NumberThenX(s, i), LAMBDA n1 :
            IF ~(n1.next > 0 /\ HasDigit(s, n1.next)) THEN NoMatch
            ELSE With(NumberThenX(s, n1.next), LAMBDA n2 :
                    IF ~(n2.next > 0 /\ HasDigit(s, n2.next)) THEN NoMatch
                    ELSE [found |-> TRUE,
                          g1 |-> float(s, i, n1.end),
                          g2 |-> float(s, n1.next, n2.end),
                          g3 |-> float(s, n2.next, NumberEnd(s, n2.next))]))

SearchAxBxC(s) ==
    With(Leftmost({k \in 1..Len(s) : AxBxCAt(s, k).found}), LAMBDA i :
        IF i = 0 THEN NoMatch ELSE AxBxCAt(s, i))

\* (\d+\.?\d*)\s*x\s*(\d+\.?\d*)   anchored at position i
AxBAt(s, i) ==
    IF ~HasDigit(s, i) THEN NoMatch
    ELSE With(NumberThenX(s, i), LAMBDA n1 :
            IF ~(n1.next > 0 /\ HasDigit(s, n1.next)) THEN NoMatch
            ELSE [found |-> TRUE,
                  g1 |-> float(s, i, n1.end),
                  g2 |-> float(s, n1.next, NumberEnd(s, n1.next))])

SearchAxB(s) ==
    With(Leftmost({k \in 1..Len(s) : AxBAt(s, k).found}), LAMBDA i :
        IF i = 0 THEN NoMatch ELSE AxBAt(s, i))

\* (\d+)\s*point   anchored at position i
PointsAt(s, i) ==
    IF ~HasDigit(s, i) THEN NoMatch
    ELSE With(SkipDigits(s, i), LAMBDA e :
            IF Is(s, SkipSpaces(s, e), lit.point)
            THEN [found |-> TRUE, g1 |-> int(s, i, e)]
            ELSE NoMatch)

SearchPoints(s) ==
    With(Leftmost({k \in 1..Len(s) : PointsAt(s, k).found}), LAMBDA i :
        IF i = 0 THEN NoMatch ELSE PointsAt(s, i))

\* the keyword lists of the extract_dimension calls of each branch, by the
\* local variable that receives the result
keywords ==
    [ cylinder |->
          [ radius |-> <<lit.radius, lit.r>>,
            diameter |-> <<lit.diameter, lit.dia, lit.d>>,
            height |-> <<lit.height, lit.tall, lit.long, lit.h>> ],
      cube |->
          [ size |-> <<lit.side, lit.size, lit.length>> ],
      box |->
          [ width |-> <<lit.width, lit.wide, lit.w>>,
            height |-> <<lit.height, lit.tall, lit.h>>,
            depth |-> <<lit.depth, lit.deep, lit.long, lit.length, lit.d, lit.l>> ],
      hexagon |->
          [ radius |-> <<lit.radius, lit.r, lit.size>>,
            height |-> <<lit.height, lit.tall, lit.h, lit.thick>> ],
      triangle |->
          [ base |-> <<lit.base, lit.width, lit.b, lit.w>>,
            tri_height |-> <<lit.height, lit.tall, lit.h>>,
            depth |-> <<lit.depth, lit.thick, lit.extrude, lit.d>> ],
      pentagon |->
          [ radius |-> <<lit.radius, lit.r, lit.size>>,
            height |-> <<lit.height, lit.tall, lit.h, lit.thick>> ],
      octagon |->
          [ radius |-> <<lit.radius, lit.r, lit.size>>,
            height |-> <<lit.height, lit.tall, lit.h, lit.thick>> ],
      ellipse |->
          [ major |-> <<lit.major, lit.length, lit.long, lit.a>>,
            minor |-> <<lit.minor, lit.width, lit.short, lit.b>>,
            height |-> <<lit.height, lit.tall, lit.h, lit.thick>> ],
      circle |->
          [ radius |-> <<lit.radius, lit.r>>,
            diameter |-> <<lit.diameter, lit.dia, lit.d>>,
            height |-> <<lit.height, lit.tall, lit.h, lit.thick, lit.extrude>> ],
      square |->
          [ size |-> <<lit.side, lit.size, lit.length, lit.s>>,
            height |-> <<lit.height, lit.tall, lit.h, lit.thick, lit.extrude>> ],
      rectangle |->
          [ width |-> <<lit.width, lit.wide, lit.w>>,
            length |-> <<lit.length, lit.long, lit.l, lit.height, lit.h>>,
            depth |-> <<lit.depth, lit.thick, lit.extrude, lit.d>> ],
      slot |->
          [ length |-> <<lit.length, lit.long, lit.l>>,
            width |-> <<lit.width, lit.wide, lit.w>>,
            height |-> <<lit.height, lit.tall, lit.h, lit.thick>> ],
      washer |->
          [ outer |-> <<lit.outer, lit.outside, lit.od, lit.diameter>>,
            inner |-> <<lit.inner, lit.inside, lit.id, lit.hole>>,
            height |-> <<lit.height, lit.tall, lit.h, lit.thick>> ],
      lshape |->
          [ width |-> <<lit.width, lit.w>>,
            length |-> <<lit.length, lit.l, lit.height, lit.h>>,
            thickness |-> <<lit.thick, lit.t>>,
            depth |-> <<lit.depth, lit.d, lit.extrude>> ],
      cross |->
          [ size |-> <<lit.size, lit.s, lit.width, lit.w>>,
            thickness |-> <<lit.thick, lit.t, lit.arm>>,
            depth |-> <<lit.depth, lit.d, lit.height, lit.h>> ],
      star |->
          [ outer |-> <<lit.outer, lit.radius, lit.r, lit.size>>,
            inner |-> <<lit.inner>>,
            height |-> <<lit.height, lit.h, lit.thick, lit.depth>> ] ]

\* the results of the extract_dimension calls of a branch
Dimensions(p, keyword_lists) ==
    [name \in DOMAIN keyword_lists |-> extract_dimension(p, keyword_lists[name])]

\* numbers[n] of the source is numbers[n + 1] here (sequences start at 1)
CylinderBranch(dim, numbers, units) ==
    LET radius1  == IF Truthy(dim.diameter) /\ ~Truthy(dim.radius) THEN dim.diameter \div 2 ELSE dim.radius
        fill     == (~Truthy(radius1) \/ ~Truthy(dim.height)) /\ Len(numbers) >= 2
        radius2  == IF fill THEN Or(radius1, numbers[1]) ELSE radius1
        height1  == IF fill THEN Or(dim.height, numbers[2]) ELSE dim.height
    IN  ParsedShape("cylinder",
                    [radius |-> Or(radius2, Meter \div 100),
                     height |-> Or(height1, (Meter \div 100) * 2)],
                    units, FALSE)

\* a slip in the literal default of the cube
CubeBranch_default_10mm(dim, numbers, units) ==
    LET size1   == IF ~Truthy(dim.size)
                   THEN (IF Len(numbers) > 0 THEN numbers[1] ELSE Meter \div 100)
                   ELSE dim.size
    IN  ParsedShape("cube", [size |-> size1], units, FALSE)

CubeBranch(dim, numbers, units) ==
    LET size1   == IF ~Truthy(dim.size)
                   THEN (IF Len(numbers) > 0 THEN numbers[1] ELSE (Meter \div 100) * 2)
                   ELSE dim.size
    IN  ParsedShape("cube", [size |-> size1], units, FALSE)

\* the width keyword before the dimension pattern
BoxBranch_keyword_first(dim, numbers, axb_match, units) ==
    LET width1  == IF axb_match.found THEN Or(dim.width, convert_to_meters(axb_match.g1, units))
                   ELSE IF Len(numbers) >= 3 THEN Or(dim.width, numbers[1])
                   ELSE IF Len(numbers) = 1 THEN numbers[1]
                   ELSE dim.width
        height1 == IF axb_match.found THEN convert_to_meters(axb_match.g2, units)
                   ELSE IF Len(numbers) >= 3 THEN Or(dim.height, numbers[2])
                   ELSE IF Len(numbers) = 1 THEN numbers[1]
                   ELSE dim.height
        depth1  == IF axb_match.found THEN convert_to_meters(axb_match.g3, units)
                   ELSE IF Len(numbers) >= 3 THEN Or(dim.depth, numbers[3])
                   ELSE IF Len(numbers) = 1 THEN numbers[1]
                   ELSE dim.depth
    IN  ParsedShape("box",
                    [width  |-> Or(width1, (Meter \div 100) * 2),
                     height |-> Or(height1, (Meter \div 100) * 2),
                     depth  |-> Or(depth1, (Meter \div 100) * 2)],
                    units, FALSE)

BoxBranch(dim, numbers, axb_match, units) ==
    LET width1  == IF axb_match.found THEN convert_to_meters(axb_match.g1, units)
                   ELSE IF Len(numbers) >= 3 THEN Or(dim.width, numbers[1])
                   ELSE IF Len(numbers) = 1 THEN numbers[1]
                   ELSE dim.width
        height1 == IF axb_match.found THEN convert_to_meters(axb_match.g2, units)
                   ELSE IF Len(numbers) >= 3 THEN Or(dim.height, numbers[2])
                   ELSE IF Len(numbers) = 1 THEN numbers[1]
                   ELSE dim.height
        depth1  == IF axb_match.found THEN convert_to_meters(axb_match.g3, units)
                   ELSE IF Len(numbers) >= 3 THEN Or(dim.depth, numbers[3])
                   ELSE IF Len(numbers) = 1 THEN numbers[1]
                   ELSE dim.depth
    IN  ParsedShape("box",
                    [width  |-> Or(width1, (Meter \div 100) * 2),
                     height |-> Or(height1, (Meter \div 100) * 2),
                     depth  |-> Or(depth1, (Meter \div 100) * 2)],
                    units, FALSE)

\* a slip in the index of the positional height
PolygonBranch_height_first_number(dim, numbers, shape_type, units, is_2d) ==
    LET radius1 == IF ~Truthy(dim.radius) /\ Len(numbers) > 0 THEN numbers[1] ELSE dim.radius
        height1 == IF ~Truthy(dim.height) /\ Len(numbers) >= 2 THEN numbers[1] ELSE dim.height
    IN  ParsedShape(shape_type,
                    [radius |-> Or(radius1, Meter \div 100),
                     height |-> Or(height1, Meter \div 100)],
                    units, is_2d)

\* the hexagon, pentagon and octagon branches have the same body
PolygonBranch(dim, numbers, shape_type, units, is_2d) ==
    LET radius1 == IF ~Truthy(dim.radius) /\ Len(numbers) > 0 THEN numbers[1] ELSE dim.radius
        height1 == IF ~Truthy(dim.height) /\ Len(numbers) >= 2 THEN numbers[2] ELSE dim.height
    IN  ParsedShape(shape_type,
                    [radius |-> Or(radius1, Meter \div 100),
                     height |-> Or(height1, Meter \div 100)],
                    units, is_2d)

TriangleBranch(dim, numbers, units, is_2d) ==
    LET base1       == IF ~Truthy(dim.base) /\ Len(numbers) > 0 THEN numbers[1] ELSE dim.base
        tri_height1 == IF ~Truthy(dim.tri_height) /\ Len(numbers) >= 2 THEN numbers[2] ELSE dim.tri_height
        depth1      == IF ~Truthy(dim.depth) /\ Len(numbers) >= 3 THEN numbers[3] ELSE dim.depth
    IN  ParsedShape("triangle",
                    [base       |-> Or(base1, (Meter \div 100) * 2),
                     tri_height |-> Or(tri_height1, (Meter \div 100) * 2),
                     depth      |-> Or(depth1, Meter \div 100)],
                    units, is_2d)

EllipseBranch(dim, numbers, units, is_2d) ==
    LET major1  == IF ~Truthy(dim.major) /\ Len(numbers) > 0 THEN numbers[1] ELSE dim.major
        minor1  == IF ~Truthy(dim.minor) /\ Len(numbers) >= 2 THEN numbers[2] ELSE dim.minor
        height1 == IF ~Truthy(dim.height) /\ Len(numbers) >= 3 THEN numbers[3] ELSE dim.height
    IN  ParsedShape("ellipse",
                    [major  |-> Or(major1, (Meter \div 100) * 2),
                     minor  |-> Or(minor1, Meter \div 100),
                     height |-> Or(height1, Meter \div 100)],
                    units, is_2d)

\* a height of zero extrudes
CircleBranch_extrude_on_zero(dim, numbers, units) ==
    LET radius1  == IF Truthy(dim.diameter) /\ ~Truthy(dim.radius) THEN dim.diameter \div 2 ELSE dim.radius
        radius2  == IF ~Truthy(radius1)
                    THEN (IF Len(numbers) > 0 THEN numbers[1] ELSE Meter \div 100)
                    ELSE radius1
        radius3  == Or(radius2, Meter \div 100)
    IN  IF dim.height # None
        THEN ParsedShape("cylinder", [radius |-> radius3, height |-> dim.height], units, FALSE)
        ELSE ParsedShape("circle", [radius |-> radius3], units, TRUE)

CircleBranch(dim, numbers, units) ==
    LET radius1  == IF Truthy(dim.diameter) /\ ~Truthy(dim.radius) THEN dim.diameter \div 2 ELSE dim.radius
        radius2  == IF ~Truthy(radius1)
                    THEN (IF Len(numbers) > 0 THEN numbers[1] ELSE Meter \div 100)
                    ELSE radius1
        radius3  == Or(radius2, Meter \div 100)
    IN  IF Truthy(dim.height)
        THEN ParsedShape("cylinder", [radius |-> radius3, height |-> dim.height], units, FALSE)
        ELSE ParsedShape("circle", [radius |-> radius3], units, TRUE)

SquareBranch(dim, numbers, units) ==
    LET size1   == IF ~Truthy(dim.size) /\ Len(numbers) > 0 THEN numbers[1] ELSE dim.size
        size2   == Or(size1, (Meter \div 100) * 2)
    IN  IF Truthy(dim.height)
        THEN ParsedShape("cube", [size |-> size2], units, FALSE)
        ELSE ParsedShape("square", [size |-> size2], units, TRUE)

RectangleBranch(dim, numbers, axb_match, units) ==
    LET width1  == IF axb_match.found THEN convert_to_meters(axb_match.g1, units)
                   ELSE IF Len(numbers) >= 2 THEN Or(dim.width, numbers[1])
                   ELSE dim.width
        length1 == IF axb_match.found THEN convert_to_meters(axb_match.g2, units)
                   ELSE IF Len(numbers) >= 2 THEN Or(dim.length, numbers[2])
                   ELSE dim.length
        width2  == Or(width1, (Meter \div 100) * 2)
        length2 == Or(length1, Meter \div 100)
    IN  IF Truthy(dim.depth)
        THEN ParsedShape("box", [width |-> width2, height |-> dim.depth, depth |-> length2],
                         units, FALSE)
        ELSE ParsedShape("rectangle", [width |-> width2, length |-> length2], units, TRUE)

SlotBranch(dim, numbers, units, is_2d) ==
    LET length1 == IF ~Truthy(dim.length) /\ Len(numbers) > 0 THEN numbers[1] ELSE dim.length
        width1  == IF ~Truthy(dim.width) /\ Len(numbers) >= 2 THEN numbers[2] ELSE dim.width
        height1 == IF ~Truthy(dim.height) /\ Len(numbers) >= 3 THEN numbers[3] ELSE dim.height
    IN  ParsedShape("slot",
                    [length |-> Or(length1, (Meter \div 100) * 3),
                     width  |-> Or(width1, Meter \div 100),
                     height |-> Or(height1, (Meter \div 1000) * 5)],
                    units, is_2d)

WasherBranch(dim, numbers, units, is_2d) ==
    LET outer1  == IF ~Truthy(dim.outer) /\ Len(numbers) > 0 THEN numbers[1] ELSE dim.outer
        inner1  == IF ~Truthy(dim.inner) /\ Len(numbers) >= 2 THEN numbers[2] ELSE dim.inner
        height1 == IF ~Truthy(dim.height) /\ Len(numbers) >= 3 THEN numbers[3] ELSE dim.height
    IN  ParsedShape("washer",
                    [outer  |-> Or(outer1, (Meter \div 100) * 2),
                     inner  |-> Or(inner1, Meter \div 100),
                     height |-> Or(height1, (Meter \div 1000) * 5)],
                    units, is_2d)

LShapeBranch(dim, numbers, units, is_2d) ==
    LET width1     == IF Len(numbers) >= 1 THEN Or(dim.width, numbers[1]) ELSE dim.width
        length1    == IF Len(numbers) >= 2 THEN Or(dim.length, numbers[2]) ELSE dim.length
        thickness1 == IF Len(numbers) >= 3 THEN Or(dim.thickness, numbers[3]) ELSE dim.thickness
        depth1     == IF Len(numbers) >= 4 THEN Or(dim.depth, numbers[4]) ELSE dim.depth
    IN  ParsedShape("lshape",
                    [width     |-> Or(width1, (Meter \div 100) * 2),
                     length    |-> Or(length1, (Meter \div 100) * 2),
                     thickness |-> Or(thickness1, (Meter \div 1000) * 3),
                     depth     |-> Or(depth1, Meter \div 100)],
                    units, is_2d)

CrossBranch(dim, numbers, units, is_2d) ==
    LET size1      == IF Len(numbers) >= 1 THEN Or(dim.size, numbers[1]) ELSE dim.size
        thickness1 == IF Len(numbers) >= 2 THEN Or(dim.thickness, numbers[2]) ELSE dim.thickness
        depth1     == IF Len(numbers) >= 3 THEN Or(dim.depth, numbers[3]) ELSE dim.depth
    IN  ParsedShape("cross",
                    [size      |-> Or(size1, (Meter \div 100) * 2),
                     thickness |-> Or(thickness1, (Meter \div 1000) * 5),
                     depth     |-> Or(depth1, (Meter \div 1000) * 5)],
                    units, is_2d)

\* half of the outer radius as the inner default
StarBranch_inner_half(dim, numbers, points_match, units, is_2d) ==
    LET points  == IF points_match.found THEN points_match.g1 ELSE 5
        outer1  == IF ~Truthy(dim.outer) /\ Len(numbers) > 0 THEN numbers[1] ELSE dim.outer
        height1 == IF ~Truthy(dim.height) /\ Len(numbers) >= 2 THEN numbers[2] ELSE dim.height
        outer2  == Or(outer1, (Meter \div 100) * 2)
    IN  ParsedShape("star",
                    [outer  |-> outer2,
                     inner  |-> Or(dim.inner, outer2 \div 2),
                     points |-> points,
                     height |-> Or(height1, (Meter \div 1000) * 5)],
                    units, is_2d)

StarBranch(dim, numbers, points_match, units, is_2d) ==
    LET points  == IF points_match.found THEN points_match.g1 ELSE 5
        outer1  == IF ~Truthy(dim.outer) /\ Len(numbers) > 0 THEN numbers[1] ELSE dim.outer
        height1 == IF ~Truthy(dim.height) /\ Len(numbers) >= 2 THEN numbers[2] ELSE dim.height
        outer2  == Or(outer1, (Meter \div 100) * 2)
    IN  ParsedShape("star",
                    [outer  |-> outer2,
                     inner  |-> Or(dim.inner, (outer2 \div 10) * 4),
                     points |-> points,
                     height |-> Or(height1, (Meter \div 1000) * 5)],
                    units, is_2d)

\* the trigger words of the sixteen conditions of the if/elif chain
cylinder_words  == <<lit.cylinder, lit.cylindrical, lit.tube, lit.pipe>>
cube_words      == <<lit.cube>>
box_words       == <<lit.box, lit.rectangular, lit.prism, lit.block>>
hexagon_words   == <<lit.hexagon, lit.hex>>
triangle_words  == <<lit.triangle>>
pentagon_words  == <<lit.pentagon>>
octagon_words   == <<lit.octagon>>
ellipse_words   == <<lit.ellipse, lit.oval>>
circle_words    == <<lit.circle>>
square_words    == <<lit.square>>
rectangle_words == <<lit.rectangle, lit.rect>>
slot_words      == <<lit.slot>>
washer_words_no_ring == <<lit.washer, lit.donut, lit.annulus>>
washer_words    == <<lit.washer, lit.ring, lit.donut, lit.annulus>>
lshape_words    == <<lit.l_dash_shape, lit.lshape, lit.l_sp_shape>>
cross_words     == <<lit.cross, lit.plus>>
star_words      == <<lit.star>>

\* a slip in the order of the chain: the box condition tested first
branch_box_first(prompt_lower) ==
    IF ContainsAny(prompt_lower, box_words) THEN "box"
    ELSE IF ContainsAny(prompt_lower, cylinder_words) THEN "cylinder"
    ELSE IF ContainsAny(prompt_lower, cube_words) THEN "cube"
    ELSE IF ContainsAny(prompt_lower, hexagon_words) THEN "hexagon"
    ELSE IF ContainsAny(prompt_lower, triangle_words) THEN "triangle"
    ELSE IF ContainsAny(prompt_lower, pentagon_words) THEN "pentagon"
    ELSE IF ContainsAny(prompt_lower, octagon_words) THEN "octagon"
    ELSE IF ContainsAny(prompt_lower, ellipse_words) THEN "ellipse"
    ELSE IF ContainsAny(prompt_lower, circle_words) THEN "circle"
    ELSE IF ContainsAny(prompt_lower, square_words) THEN "square"
    ELSE IF ContainsAny(prompt_lower, rectangle_words) THEN "rectangle"
    ELSE IF ContainsAny(prompt_lower, slot_words) THEN "slot"
    ELSE IF ContainsAny(prompt_lower, washer_words) THEN "washer"
    ELSE IF ContainsAny(prompt_lower, lshape_words) THEN "lshape"
    ELSE IF ContainsAny(prompt_lower, cross_words) THEN "cross"
    ELSE IF ContainsAny(prompt_lower, star_words) THEN "star"
    ELSE "none"

\* the if/elif chain: the first condition that holds selects the branch
branch(prompt_lower) ==
    IF ContainsAny(prompt_lower, cylinder_words) THEN "cylinder"
    ELSE IF ContainsAny(prompt_lower, cube_words) THEN "cube"
    ELSE IF ContainsAny(prompt_lower, box_words) THEN "box"
    ELSE IF ContainsAny(prompt_lower, hexagon_words) THEN "hexagon"
    ELSE IF ContainsAny(prompt_lower, triangle_words) THEN "triangle"
    ELSE IF ContainsAny(prompt_lower, pentagon_words) THEN "pentagon"
    ELSE IF ContainsAny(prompt_lower, octagon_words) THEN "octagon"
    ELSE IF ContainsAny(prompt_lower, ellipse_words) THEN "ellipse"
    ELSE IF ContainsAny(prompt_lower, circle_words) THEN "circle"
    ELSE IF ContainsAny(prompt_lower, square_words) THEN "square"
    ELSE IF ContainsAny(prompt_lower, rectangle_words) THEN "rectangle"
    ELSE IF ContainsAny(prompt_lower, slot_words) THEN "slot"
    ELSE IF ContainsAny(prompt_lower, washer_words) THEN "washer"
    ELSE IF ContainsAny(prompt_lower, lshape_words) THEN "lshape"
    ELSE IF ContainsAny(prompt_lower, cross_words) THEN "cross"
    ELSE IF ContainsAny(prompt_lower, star_words) THEN "star"
    ELSE "none"

two_d_words == <<lit.two_d, lit.sketch, lit.draw, lit.flat>>

\* every branch starts with its extract_dimension calls, and the results of
\* extract_all_numbers and of the searches do not depend on where the branch
\* calls them: they are computed here and handed to the branch
parse_prompt(p) ==
    With(Strip(Lower(p)), LAMBDA prompt_lower :
    With(detect_units(p), LAMBDA units :
    With(ContainsAny(prompt_lower, two_d_words), LAMBDA is_2d :
    With(branch(prompt_lower), LAMBDA b :
        IF b = "none" THEN NoneShape
        ELSE With(Dimensions(p, keywords[b]), LAMBDA dim :
             With(extract_all_numbers(p), LAMBDA numbers :
                CASE b = "cylinder"  -> CylinderBranch(dim, numbers, units)
                  [] b = "cube"      -> CubeBranch(dim, numbers, units)
                  [] b = "box"       -> BoxBranch(dim, numbers, SearchAxBxC(prompt_lower), units)
                  [] b = "hexagon"   -> PolygonBranch(dim, numbers, "hexagon", units, is_2d)
                  [] b = "triangle"  -> TriangleBranch(dim, numbers, units, is_2d)
                  [] b = "pentagon"  -> PolygonBranch(dim, numbers, "pentagon", units, is_2d)
                  [] b = "octagon"   -> PolygonBranch(dim, numbers, "octagon", units, is_2d)
                  [] b = "ellipse"   -> EllipseBranch(dim, numbers, units, is_2d)
                  [] b = "circle"    -> CircleBranch(dim, numbers, units)
                  [] b = "square"    -> SquareBranch(dim, numbers, units)
                  [] b = "rectangle" -> RectangleBranch(dim, numbers, SearchAxB(prompt_lower), units)
                  [] b = "slot"      -> SlotBranch(dim, numbers, units, is_2d)
                  [] b = "washer"    -> WasherBranch(dim, numbers, units, is_2d)
                  [] b = "lshape"    -> LShapeBranch(dim, numbers, units, is_2d)
                  [] b = "cross"     -> CrossBranch(dim, numbers, units, is_2d)
                  [] b = "star"      -> StarBranch(dim, numbers, SearchPoints(prompt_lower),
                                                   units, is_2d)))))))

\* parse_prompt raises: one of its calls of float() or int() on a group
\* (\d+\.?\d*) or (\d+), which a search can match from any digit of the
\* prompt, raises ValueError
parse_prompt_raises(p) ==
    With(Lower(p), LAMBDA prompt_lower :
        \E i \in 1..Len(prompt_lower) :
            /\ IsDigit(prompt_lower[i])
            /\ \/ float_raises(prompt_lower, i, NumberEnd(prompt_lower, i))
               \/ int_raises(prompt_lower, i, SkipDigits(prompt_lower, i)))

-----------------------------------------------------------------------------
(* process_prompt and the SolidWorksApp it drives.                          *)
(* SolidWorks is the record host: the number of documents it has created    *)
(* (a document is its number) and the names of the calls it received.       *)

\* the message for a prompt without a shape
UnknownShapeMessage ==
    "Unknown shape. Try: cube, box, cylinder, hexagon, triangle, pentagon, octagon, ellipse, star, cross, slot, washer, L-shape, circle, square, rectangle"

\* SolidWorksApp.new_part: NewDocument returns a document (ok) or None, which
\* is stored in the field model before new_part raises
new_part(app, host_, ok) ==
    [sw     |-> [app EXCEPT !.model = IF ok THEN host_.documents + 1 ELSE None],
     host   |-> [documents |-> host_.documents + (IF ok THEN 1 ELSE 0),
                 calls     |-> Append(host_.calls, "NewDocument")],
     raised |-> ~ok]

CreateLines(n) == [i \in 1..n |-> "CreateLine"]

\* the calls that draw the sketch of a shape
SketchCalls(shape) ==
    CASE shape.shape_type \in {"cylinder", "circle"} -> <<"CreateCircle">>
      [] shape.shape_type \in {"cube", "box", "square", "rectangle"} -> CreateLines(4)
      [] shape.shape_type = "hexagon"  -> CreateLines(6)
      [] shape.shape_type = "pentagon" -> CreateLines(5)
      [] shape.shape_type = "octagon"  -> CreateLines(8)
      [] shape.shape_type = "triangle" -> CreateLines(3)
      [] shape.shape_type = "ellipse"  -> <<"CreateEllipse">>
      [] shape.shape_type = "slot"     -> <<"CreateLine", "CreateArc", "CreateLine", "CreateArc">>
      [] shape.shape_type = "washer"   -> <<"CreateCircle", "CreateCircle">>
      [] shape.shape_type = "lshape"   -> CreateLines(6)
      [] shape.shape_type = "cross"    -> CreateLines(12)
      [] shape.shape_type = "star"     -> CreateLines(2 * shape.params.points)

\* the branch of process_prompt for the shape calls extrude
Extrudes(shape) ==
    \/ shape.shape_type \in {"cylinder", "cube", "box", "slot", "washer", "lshape", "cross"}
    \/ /\ shape.shape_type \in {"hexagon", "triangle", "pentagon", "octagon", "ellipse", "star"}
       /\ ~shape.is_2d

\* the name process_prompt returns for the shape, without its numbers
ShapeName(shape) ==
    CASE shape.shape_type = "cylinder" -> "Cylinder"
      [] shape.shape_type = "cube"     -> "Cube"
      [] shape.shape_type = "box"      -> "Box"
      [] shape.shape_type = "hexagon"  -> IF shape.is_2d THEN "Hexagon 2D" ELSE "Hexagon"
      [] shape.shape_type = "triangle" -> IF shape.is_2d THEN "Triangle 2D" ELSE "Triangle Prism"
      [] shape.shape_type = "pentagon" -> IF shape.is_2d THEN "Pentagon 2D" ELSE "Pentagon"
      [] shape.shape_type = "octagon"  -> IF shape.is_2d THEN "Octagon 2D" ELSE "Octagon"
      [] shape.shape_type = "ellipse"  -> IF shape.is_2d THEN "Ellipse 2D" ELSE "Ellipse"
      [] shape.shape_type = "slot"     -> "Slot"
      [] shape.shape_type = "washer"   -> "Washer"
      [] shape.shape_type = "lshape"   -> "L-Shape"
      [] shape.shape_type = "cross"    -> "Cross"
      [] shape.shape_type = "star"     -> IF shape.is_2d THEN "Point Star 2D" ELSE "Point Star"
      [] shape.shape_type = "circle"   -> "Circle 2D"
      [] shape.shape_type = "square"   -> "Square 2D"
      [] shape.shape_type = "rectangle" -> "Rectangle 2D"

\* the calls of a creator after new_part: the sketch, the extrusion if the
\* branch has one, and zoom_to_fit
CreatorCalls(shape) ==
    <<"InsertSketch">> \o SketchCalls(shape) \o <<"InsertSketch">>
        \o (IF Extrudes(shape) THEN <<"FeatureExtrusion2">> ELSE <<>>)
        \o <<"ViewZoomtofit2", "ForceRebuild3">>

\* the shape types of the if/elif chain of process_prompt
DispatchedTypes ==
    {"cylinder", "cube", "box", "hexagon", "triangle", "pentagon", "octagon", "ellipse",
     "slot", "washer", "lshape", "cross", "star", "circle", "square", "rectangle"}

\* the branch draws the sketch itself, after new_part, instead of calling a
\* creator
InlineSketch(shape) ==
    /\ shape.shape_type \in {"hexagon", "triangle", "pentagon", "octagon", "ellipse", "star"}
    /\ shape.is_2d

\* a slip: the lshape branch reads the key height
ParamsRead_lshape_height(shape) ==
    IF shape.shape_type = "lshape" THEN <<"width", "length", "thickness", "height">>
    ELSE <<"size">>
\* the keys of params the branch of the shape reads, in the order of reading
ParamsRead(shape) ==
    CASE shape.shape_type = "cylinder" -> <<"radius", "height">>
      [] shape.shape_type = "cube"     -> <<"size">>
      [] shape.shape_type = "box"      -> <<"width", "height", "depth">>
      [] shape.shape_type \in {"hexagon", "pentagon", "octagon"} ->
             IF shape.is_2d THEN <<"radius">> ELSE <<"radius", "height">>
      [] shape.shape_type = "triangle" ->
             IF shape.is_2d THEN <<"base", "tri_height">> ELSE <<"base", "tri_height", "depth">>
      [] shape.shape_type = "ellipse"  ->
             IF shape.is_2d THEN <<"major", "minor">> ELSE <<"major", "minor", "height">>
      [] shape.shape_type = "slot"     -> <<"length", "width", "height">>
      [] shape.shape_type = "washer"   -> <<"outer", "inner", "height">>
      [] shape.shape_type = "lshape"   -> <<"width", "length", "thickness", "depth">>
      [] shape.shape_type = "cross"    -> <<"size", "thickness", "depth">>
      [] shape.shape_type = "star"     ->
             IF shape.is_2d THEN <<"outer", "inner", "points">>
             ELSE <<"outer", "inner", "points", "height">>
      [] shape.shape_type = "circle"   -> <<"radius">>
      [] shape.shape_type = "square"   -> <<"size">>
      [] shape.shape_type = "rectangle" -> <<"width", "length">>

\* the keys the branch reads that params does not hold
MissingKeys(shape) ==
    SelectSeq(ParamsRead(shape), LAMBDA key : key \notin DOMAIN shape.params)

\* str(KeyError(key))
KeyErrorMessage(key) == "'" \o key \o "'"

NotImplementedMessage(t) == "Shape '" \o t \o "' not implemented"

\* a slip: the document is opened before the shape is looked at
process_prompt_new_part_first(app, host_, shape, new_document_ok) ==
    With(new_part(app, host_, new_document_ok), LAMBDA created :
        IF shape = NoneShape
        THEN [sw |-> created.sw, host |-> created.host,
              outcome |-> <<FALSE, UnknownShapeMessage>>]
        ELSE IF created.raised
        THEN [sw |-> created.sw, host |-> created.host,
              outcome |-> <<FALSE, "Failed to create new part">>]
        ELSE [sw |-> created.sw,
              host |-> [created.host EXCEPT !.calls = @ \o CreatorCalls(shape)],
              outcome |-> <<TRUE, ShapeName(shape)>>])

\* process_prompt after its call of parse_prompt has returned shape: the
\* SolidWorksApp, the host and the returned pair.  Every branch starts with
\* new_part, whose exception is caught and returned as the message; so is
\* the KeyError of a key that params does not hold, which a branch that
\* calls a creator raises before the call and a branch that draws the
\* sketch itself after the sketch was opened.
process_prompt(app, host_, shape, new_document_ok) ==
    IF shape = NoneShape
    THEN [sw |-> app, host |-> host_, outcome |-> <<FALSE, UnknownShapeMessage>>]
    ELSE IF shape.shape_type \notin DispatchedTypes
    THEN [sw |-> app, host |-> host_,
          outcome |-> <<FALSE, NotImplementedMessage(shape.shape_type)>>]
    ELSE IF MissingKeys(shape) # <<>> /\ ~InlineSketch(shape)
    THEN [sw |-> app, host |-> host_,
          outcome |-> <<FALSE, KeyErrorMessage(MissingKeys(shape)[1])>>]
    ELSE With(new_part(app, host_, new_document_ok), LAMBDA created :
            IF created.raised
            THEN [sw |-> created.sw, host |-> created.host,
                  outcome |-> <<FALSE, "Failed to create new part">>]
            ELSE IF MissingKeys(shape) # <<>>
            THEN [sw |-> created.sw,
                  host |-> [created.host EXCEPT !.calls = Append(@, "InsertSketch")],
                  outcome |-> <<FALSE, KeyErrorMessage(MissingKeys(shape)[1])>>]
            ELSE [sw |-> created.sw,
                  host |-> [created.host EXCEPT !.calls = @ \o CreatorCalls(shape)],
                  outcome |-> <<TRUE, ShapeName(shape)>>])
-----------------------------------------------------------------------------
(* SolidWorksCreator: the stacking cursor and the documents of the host.    *)
(* A document is its position in documents; of each document the host keeps *)
(* the heights of its solids in the order of creation, the number of its    *)
(* sketches, the heights of its reference planes and the type names of the  *)
(* features of its tree; it names the sketches Sketch1, Sketch2, ... in the *)
(* order of creation.  Heights are whole                                    *)
(* numbers of one length unit.  A method is an operator on the record s of  *)
(* a call in progress: the fields of the creator (self), the documents, and *)
(* what the call has done so far.                                           *)

\* a new part: its tree holds the Front Plane
EmptyDocument == [solids |-> <<>>, sketches |-> 0, planes |-> {}, features |-> <<"RefPlane">>]

RECURSIVE Sum(_)
Sum(heights) == IF heights = <<>> THEN 0 ELSE Head(heights) + Sum(Tail(heights))

\* the fields of the creator
Self ==
    [model |-> model, _stacking |-> _stacking, _stack_height |-> _stack_height,
     _last_shape_height |-> _last_shape_height, _plane_height |-> _plane_height]

\* a call that has done nothing yet
Entered ==
    [self |-> Self, documents |-> documents, raised |-> FALSE, new_documents |-> 0,
     doc |-> None, sketch_z |-> None, below |-> None, sketch_no |-> None, axis |-> None]

Raise(s) == [s EXCEPT !.raised = TRUE]

begin_stack(s) == [s EXCEPT !.self._stacking = TRUE]

\* a slip: the active plane survives reset
reset_keeps_plane(s) ==
    [s EXCEPT !.self._stacking = FALSE, !.self._stack_height = 0,
              !.self._last_shape_height = 0]
reset(s) ==
    [s EXCEPT !.self._stacking = FALSE, !.self._stack_height = 0,
              !.self._last_shape_height = 0, !.self._plane_height = None]

\* a slip: the plane does not turn stacking on
create_plane_keeps_mode(s, height, plane_ok) ==
    IF s.self.model = None THEN Raise(s)
    ELSE With(IF height = None THEN s.self._stack_height ELSE height, LAMBDA h :
            IF ~plane_ok THEN Raise(s)
            ELSE [s EXCEPT !.documents[s.self.model].planes = @ \cup {h},
                           !.documents[s.self.model].features = Append(@, "RefPlane"),
                           !.self._plane_height = h])
\* a slip: a plane without a height is put at 0
create_plane_default_zero(s, height, plane_ok) ==
    IF s.self.model = None THEN Raise(s)
    ELSE With(IF height = None THEN 0 ELSE height, LAMBDA h :
            IF ~plane_ok THEN Raise(s)
            ELSE [s EXCEPT !.documents[s.self.model].planes = @ \cup {h},
                           !.documents[s.self.model].features = Append(@, "RefPlane"),
                           !.self._plane_height = h,
                           !.self._stacking = TRUE])
\* InsertRefPlane returns a plane (plane_ok) or None
create_plane(s, height, plane_ok) ==
    IF s.self.model = None THEN Raise(s)
    ELSE With(IF height = None THEN s.self._stack_height ELSE height, LAMBDA h :
            IF ~plane_ok THEN Raise(s)
            ELSE [s EXCEPT !.documents[s.self.model].planes = @ \cup {h},
                           !.documents[s.self.model].features = Append(@, "RefPlane"),
                           !.self._plane_height = h,
                           !.self._stacking = TRUE])

set_height_to_plane(s) ==
    IF s.self._plane_height = None THEN Raise(s)
    ELSE [s EXCEPT !.self._stack_height = s.self._plane_height,
                   !.self._stacking = TRUE]

\* NewDocument returns a document (new_document_ok) or None; the field model
\* gets either before the test
_new_part(s, new_document_ok) ==
    IF new_document_ok
    THEN [s EXCEPT !.documents = Append(@, EmptyDocument),
                   !.self.model = Len(s.documents) + 1,
                   !.new_documents = @ + 1]
    ELSE [s EXCEPT !.self.model = None, !.new_documents = @ + 1, !.raised = TRUE]

\* a slip: the stacking flag is not looked at
_get_or_create_part_always_new(s, new_document_ok) ==
    _new_part([s EXCEPT !.self._stack_height = 0, !.self._last_shape_height = 0],
              new_document_ok)
_get_or_create_part(s, new_document_ok) ==
    IF s.self._stacking /\ s.self.model # None
    THEN s
    ELSE _new_part([s EXCEPT !.self._stack_height = 0, !.self._last_shape_height = 0],
                   new_document_ok)

\* InsertSketch(True) on a plane of the current document at height z_height;
\* below is the height of the solids the document holds at that moment,
\* sketch_no the number in the name the host gives the sketch
OpenSketch(s, z_height) ==
    [s EXCEPT !.documents[s.self.model].sketches = @ + 1,
              !.documents[s.self.model].features = Append(@, "ProfileFeature"),
              !.sketch_no = s.documents[s.self.model].sketches + 1,
              !.doc = s.self.model,
              !.sketch_z = z_height,
              !.below = Sum(s.documents[s.self.model].solids)]

\* a slip: every feature of the tree is counted
_next_sketch_name_all_features(s) == Len(s.documents[s.self.model].features) + 1
\* the number in the name Sketch<n> predicted for the next sketch: one more
\* than the ProfileFeature entries of the tree
_next_sketch_name(s) ==
    Cardinality({n \in DOMAIN s.documents[s.self.model].features :
                    s.documents[s.self.model].features[n] = "ProfileFeature"}) + 1

_start_sketch_at_height(s, z_height, plane_ok) ==
    IF z_height = 0 THEN OpenSketch(s, z_height)
    ELSE IF ~plane_ok THEN Raise(s)
    ELSE OpenSketch([s EXCEPT !.documents[s.self.model].planes = @ \cup {z_height},
                              !.documents[s.self.model].features = Append(@, "RefPlane")],
                    z_height)

\* a slip: the stack height is set, not advanced
_advance_stack_overwrite(s, shape_height) ==
    [s EXCEPT !.self._stack_height = shape_height,
              !.self._last_shape_height = shape_height]
_advance_stack(s, shape_height) ==
    [s EXCEPT !.self._stack_height = @ + shape_height,
              !.self._last_shape_height = shape_height]

\* FeatureExtrusion2: the result is not looked at
_extrude(s, height) ==
    [s EXCEPT !.documents[s.self.model].solids = Append(@, height),
              !.documents[s.self.model].features = Append(@, "Extrusion")]

\* FeatureRevolve2 returns a feature (revolve_ok) or None
_revolve(s, height, revolve_ok) ==
    IF revolve_ok
    THEN [s EXCEPT !.documents[s.self.model].solids = Append(@, height),
                   !.documents[s.self.model].features = Append(@, "Revolution")]
    ELSE Raise(s)

\* a call continues with the next step unless it has raised
Then(s, Step(_)) == IF s.raised THEN s ELSE Step(s)

\* a slip: the stack is advanced before the revolve
create_sphere_advance_first(s, radius, new_document_ok, plane_ok, revolve_ok) ==
    Then(_get_or_create_part(s, new_document_ok), LAMBDA a :
    Then(_start_sketch_at_height(a, a.self._stack_height + radius, plane_ok), LAMBDA b :
    _revolve(_advance_stack([b EXCEPT !.axis = _next_sketch_name(a)], 2 * radius),
             2 * radius, revolve_ok)))
\* axis is the number in the name of the sketch whose Line1 is selected as
\* the axis of the revolve
create_sphere(s, radius, new_document_ok, plane_ok, revolve_ok) ==
    Then(_get_or_create_part(s, new_document_ok), LAMBDA a :
    Then(_start_sketch_at_height(a, a.self._stack_height + radius, plane_ok), LAMBDA b :
    Then(_revolve([b EXCEPT !.axis = _next_sketch_name(a)], 2 * radius, revolve_ok), LAMBDA c :
    _advance_stack(c, 2 * radius))))

\* create_cylinder, create_cube, create_box, create_polygon_3d,
\* create_triangle_3d, create_ellipse_3d, create_slot_3d, create_washer,
\* create_lshape, create_cross and create_star_3d: shape_height is the
\* height, depth or size they extrude and advance by
create_extruded(s, shape_height, new_document_ok, plane_ok) ==
    Then(_get_or_create_part(s, new_document_ok), LAMBDA a :
    Then(_start_sketch_at_height(a, a.self._stack_height, plane_ok), LAMBDA b :
    _advance_stack(_extrude(b, shape_height), shape_height)))

\* a slip: a 2D shape goes through _get_or_create_part
create_2d_get_or_create(s, new_document_ok) ==
    Then(_get_or_create_part(s, new_document_ok), LAMBDA a :
    [a EXCEPT !.documents[a.self.model].sketches = @ + 1,
              !.documents[a.self.model].features = Append(@, "ProfileFeature"),
              !.sketch_no = a.documents[a.self.model].sketches + 1,
              !.doc = a.self.model, !.sketch_z = 0, !.below = 0])
\* create_circle_2d, create_square_2d, create_rectangle_2d, create_polygon_2d,
\* create_ellipse_2d, create_star_2d and create_triangle_2d
create_2d(s, new_document_ok) ==
    Then(_new_part(s, new_document_ok), LAMBDA a :
    [a EXCEPT !.documents[a.self.model].sketches = @ + 1,
              !.documents[a.self.model].features = Append(@, "ProfileFeature"),
              !.sketch_no = a.documents[a.self.model].sketches + 1,
              !.doc = a.self.model, !.sketch_z = 0, !.below = 0])
-----------------------------------------------------------------------------
(* Inputs: prompts are phrases of words separated by single spaces.        *)

RECURSIVE Join(_)
Join(ws) == IF Len(ws) = 0 THEN <<>>
            ELSE IF Len(ws) = 1 THEN ws[1]
            ELSE ws[1] \o <<" ">> \o Join(Tail(ws))

Phrases(vocab, n) == UNION {[1..k -> vocab] : k \in 1..n}
Prompts(vocab, n) == {Join(ws) : ws \in Phrases(vocab, n)}

\* words of the prompts that are not string literals of the source
word ==
    [ n0 |-> <<"0">>,
      n5 |-> <<"5">>,
      n6 |-> <<"6">>,
      n7 |-> <<"7">>,
      n10 |-> <<"1", "0">>,
      n20 |-> <<"2", "0">>,
      n2in |-> <<"2", "i", "n">>,
      n3cm |-> <<"3", "c", "m">>,
      n10mm |-> <<"1", "0", "m", "m">>,
      n2_5 |-> <<"2", ".", "5">>,
      n2x3 |-> <<"2", "x", "3">>,
      n2x3x4 |-> <<"2", "x", "3", "x", "4">>,
      n0x3x4 |-> <<"0", "x", "3", "x", "4">>,
      sphere |-> <<"s", "p", "h", "e", "r", "e">>,
      BOX |-> <<"B", "O", "X">>,
      CM |-> <<"C", "M">>,
      n1dot |-> <<"1", ".">>,
      n1_2_3 |-> <<"1", ".", "2", ".", "3">>,
      dot5 |-> <<".", "5">>,
      dots |-> <<".", ".">>,
      n2x3x |-> <<"2", "x", "3", "x">>,
      x |-> <<"x">> ]

\* the call of parse_prompt on the prompt: it returns or raises
Parse == /\ pc = "ready"
         /\ IF parse_prompt_raises(prompt)
            THEN pc' = "raised" /\ UNCHANGED parsed
            ELSE pc' = "done" /\ parsed' = parse_prompt(prompt)
         /\ UNCHANGED <<prompt, unitVars, threadVars, appVars, creatorVars>>

Next == Parse

\* no call of convert_to_meters, detect_units or extract_dimension
NoUnitCall ==
    given_value = 0 /\ given_unit = <<>> /\ given_keywords = <<>> /\ meters = 0
    /\ detected = <<>>

\* no thread
NoThread == thread = <<>> /\ frame = <<>>

\* no SolidWorksApp
NoApp == sw = <<>> /\ host = <<>> /\ outcome = <<>>

\* no SolidWorksCreator
NoCreator ==
    /\ model = None /\ _stacking = FALSE /\ _stack_height = 0 /\ _last_shape_height = 0
    /\ _plane_height = None /\ documents = <<>> /\ call = <<>>
    /\ last_mode_call = "none" /\ plane_since_reset = FALSE

InitWith(prompts) == /\ prompt \in prompts
                     /\ parsed = NoneShape
                     /\ pc = "ready"
                     /\ NoUnitCall /\ NoThread /\ NoApp /\ NoCreator

\* Shape words: every trigger word, the 2D words, a number, a keyword,
\* a word that is no trigger and a trigger in upper case.
MaxShapeWords == 2
ShapeVocab ==
    {lit.cylinder, lit.cylindrical, lit.tube, lit.pipe, lit.cube, lit.box, lit.rectangular,
     lit.prism, lit.block, lit.hexagon, lit.hex, lit.triangle, lit.pentagon, lit.octagon,
     lit.ellipse, lit.oval, lit.circle, lit.square, lit.rectangle, lit.rect, lit.slot,
     lit.washer, lit.ring, lit.donut, lit.annulus, lit.l_dash_shape, lit.lshape,
     lit.l_sp_shape, lit.cross, lit.plus, lit.star,
     lit.two_d, lit.sketch, lit.draw, lit.flat, word.n10, lit.height, word.sphere, word.BOX}
Init == InitWith(Prompts(ShapeVocab, MaxShapeWords))
Spec == Init /\ [][Next]_vars

\* a trigger word followed by up to n words of the vocabulary
ShapePrompts(triggers, vocab, n) ==
    {Join(<<t>> \o ws) : t \in triggers, ws \in UNION {[1..k -> vocab] : k \in 0..n}}

\* one trigger word of each rule
RuleTriggers ==
    {lit.cylinder, lit.cube, lit.box, lit.hexagon, lit.triangle, lit.pentagon, lit.octagon,
     lit.ellipse, lit.circle, lit.square, lit.rectangle, lit.slot, lit.washer, lit.lshape,
     lit.cross, lit.star}

\* Prompts of bare numbers: a trigger word, then numbers (zero included) and
\* the keyword height.
MaxFallbackWords == 3
FallbackVocab == {word.n10, word.n20, word.n0, lit.height}
InitFallback == InitWith(ShapePrompts(RuleTriggers, FallbackVocab, MaxFallbackWords))
SpecFallback == InitFallback /\ [][Next]_vars

\* Prompts with units: numbers with and without a unit attached, a unit word,
\* keywords that start with the letters of a unit (inner) and a dimension
\* pattern.
MaxUnitWords == 3
UnitTriggers == {lit.washer, lit.box, lit.cube}
UnitVocab == {lit.outer, lit.inner, lit.size, word.n20, word.n2in, word.n2x3x4, lit.m}
InitUnits == InitWith(ShapePrompts(UnitTriggers, UnitVocab, MaxUnitWords))
SpecUnits == InitUnits /\ [][Next]_vars

\* Prompts of the cylinder and circle rules with the diameter keywords.
MaxDiameterWords == 3
DiameterTriggers == {lit.cylinder, lit.tube, lit.circle}
DiameterVocab == {lit.diameter, lit.dia, lit.d, word.n10, word.n20, lit.height}
InitDiameter == InitWith(ShapePrompts(DiameterTriggers, DiameterVocab, MaxDiameterWords))
SpecDiameter == InitDiameter /\ [][Next]_vars

\* Prompts of the circle, square and rectangle rules with extrusion keywords,
\* a zero and a dimension pattern.
MaxExtrudeWords == 3
ExtrudeTriggers == {lit.circle, lit.square, lit.rectangle, lit.rect}
ExtrudeVocab == {lit.height, lit.depth, lit.thick, word.n5, word.n0, word.n2x3}
InitExtrude == InitWith(ShapePrompts(ExtrudeTriggers, ExtrudeVocab, MaxExtrudeWords))
SpecExtrude == InitExtrude /\ [][Next]_vars

\* Prompts of the box and rectangle rules with dimension patterns (one with a
\* zero), a unit, keywords and a number.
MaxPatternWords == 3
PatternTriggers == {lit.box, lit.rectangle}
PatternVocab ==
    {word.n2x3x4, word.n0x3x4, word.n2x3, lit.cm, lit.width, lit.depth, word.n10}
InitPattern == InitWith(ShapePrompts(PatternTriggers, PatternVocab, MaxPatternWords))
SpecPattern == InitPattern /\ [][Next]_vars

\* Prompts of the star rule with a point count, the keywords inner and outer,
\* a number with a unit and a zero.
MaxStarWords == 4
StarTriggers == {lit.star}
StarVocab == {word.n6, lit.point, lit.inner, lit.outer, word.n10mm, word.n0}
InitStar == InitWith(ShapePrompts(StarTriggers, StarVocab, MaxStarWords))
SpecStar == InitStar /\ [][Next]_vars

\* Prompts of unit words: every substring detect_units looks for, the other
\* spellings of the unit table, a shape and a number.
MaxDetectWords == 3
DetectVocab ==
    {lit.inch, lit.inches, lit.dquote, lit.in, lit.cm, lit.centimeter, lit.ft, lit.feet,
     lit.foot, lit.mm, lit.m, lit.box, word.n10, word.CM}

\* the call of detect_units on the prompt
Detect == /\ pc = "ready"
          /\ detected' = detect_units(prompt)
          /\ pc' = "done"
          /\ UNCHANGED <<prompt, parsed, given_value, given_unit, given_keywords, meters>>
          /\ UNCHANGED <<threadVars, appVars, creatorVars>>

NextDetect == Detect
InitDetect == InitWith(Prompts(DetectVocab, MaxDetectWords))
SpecDetect == InitDetect /\ [][NextDetect]_vars

\* Calls of convert_to_meters: multiples of one half up to MaxHalves halves,
\* with every key of the unit table, spellings in upper case, with spaces
\* around and with dots behind, and strings that are no unit.
MaxHalves == 6
ConvertValues == {n * (FloatScale \div 2) : n \in 0..MaxHalves}
ConvertUnits ==
    {lit.mm, lit.millimeter, lit.millimeters, lit.cm, lit.centimeter, lit.centimeters,
     lit.m, lit.meter, lit.meters, lit.in, lit.inch, lit.inches, lit.dquote,
     lit.ft, lit.foot, lit.feet}
    \cup {word.CM, <<"M">>, <<"I", "n", "c", "h">>, <<"F", "T">>}
    \cup {<<" ">> \o lit.m, lit.cm \o <<".">>, lit.m \o <<".">>, <<" ">> \o lit.in \o <<".", " ">>,
          lit.ft \o <<".", ".">>}
    \cup {<<>>, <<"y", "d">>, <<"k", "m">>, <<"x">>, <<".">>, <<"m", "e", "t", "r", "e">>}

\* the call of convert_to_meters
Convert == /\ pc = "ready"
           /\ meters' = convert_to_meters(given_value, given_unit)
           /\ pc' = "done"
           /\ UNCHANGED <<prompt, parsed, given_value, given_unit, given_keywords, detected>>
           /\ UNCHANGED <<threadVars, appVars, creatorVars>>

NextConvert == Convert
InitConvert == /\ prompt = <<>>
               /\ parsed = NoneShape
               /\ pc = "ready"
               /\ given_value \in ConvertValues
               /\ given_unit \in ConvertUnits
               /\ given_keywords = <<>>
               /\ meters = 0
               /\ detected = <<>>
               /\ NoThread /\ NoApp /\ NoCreator
SpecConvert == InitConvert /\ [][NextConvert]_vars

\* Prompts of malformed numbers: a trailing dot, several dots, a leading
\* dot, dots alone, an unfinished dimension pattern, a unit and a keyword
\* without a number, with and without a shape word.
MaxMalformedWords == 3
MalformedVocab ==
    {lit.cube, lit.box, lit.star, word.n1dot, word.n1_2_3, word.dot5, word.dots, word.n2x3x,
     word.x, lit.mm, lit.point, lit.radius}
InitMalformed == InitWith(Prompts(MalformedVocab, MaxMalformedWords))
SpecMalformed == InitMalformed /\ [][Next]_vars

\* Threads that call parse_prompt at the same time, each on one of a few
\* prompts.
NumThreads == 2
Threads == 1..NumThreads
ThreadPrompts ==
    {Join(<<lit.cube, word.n10>>), Join(<<lit.box, word.n2x3x4, lit.cm>>),
     Join(<<lit.circle, lit.two_d>>), Join(<<lit.star, word.n6, lit.point>>),
     lit.ring, word.sphere}

\* one frame for all calls, as for variables at module level
Frame_shared(t) == 1

\* the frame that holds the parameter and the local variables of the call of
\* a thread: every call has a frame of its own
Frame(t) == t

\* thread t calls parse_prompt: the prompt is bound in the frame of the call
CallParse(t) ==
    /\ thread[t].pc = "ready"
    /\ frame' = [frame EXCEPT ![Frame(t)] = [prompt |-> thread[t].prompt]]
    /\ thread' = [thread EXCEPT ![t].pc = "running"]
    /\ UNCHANGED <<parserVars, unitVars, appVars, creatorVars>>

\* the call of thread t returns what it computed from its frame
ReturnParse(t) ==
    /\ thread[t].pc = "running"
    /\ thread' = [thread EXCEPT ![t].pc = "done",
                                ![t].parsed = parse_prompt(frame[Frame(t)].prompt)]
    /\ UNCHANGED <<frame, parserVars, unitVars, appVars, creatorVars>>

NextThreads == \E t \in Threads : CallParse(t) \/ ReturnParse(t)
InitThreads ==
    /\ thread \in [Threads -> {[pc |-> "ready", prompt |-> p, parsed |-> NoneShape] :
                                 p \in ThreadPrompts}]
    /\ frame = [t \in Threads |-> [prompt |-> <<>>]]
    /\ prompt = <<>> /\ parsed = NoneShape /\ pc = "ready"
    /\ NoUnitCall /\ NoApp /\ NoCreator
SpecThreads == InitThreads /\ [][NextThreads]_vars

\* Prompts for process_prompt: a trigger word of each rule or a word that is
\* none, then the 2D words, a number and the keyword height.  The
\* SolidWorksApp has no document yet or holds document 1.
MaxProcessWords == 2
ProcessVocab == {lit.two_d, lit.sketch, word.n10, lit.height}

\* the call of process_prompt on the prompt; NewDocument gives a document or
\* None
ProcessPrompt ==
    /\ pc = "ready"
    /\ IF parse_prompt_raises(prompt)
       THEN pc' = "raised" /\ UNCHANGED <<parsed, appVars>>
       ELSE /\ pc' = "done"
            /\ parsed' = parse_prompt(prompt)
            /\ \E new_document_ok \in BOOLEAN :
                   LET returned == process_prompt(sw, host, parsed', new_document_ok)
                   IN  sw' = returned.sw /\ host' = returned.host
                       /\ outcome' = returned.outcome
    /\ UNCHANGED <<prompt, unitVars, threadVars, creatorVars>>

NextProcess == ProcessPrompt
InitProcess ==
    /\ prompt \in ShapePrompts(RuleTriggers \cup {word.sphere, word.n10}, ProcessVocab,
                               MaxProcessWords)
    /\ parsed = NoneShape /\ pc = "ready"
    /\ \E documents_before \in {0, 1} :
           /\ sw = [model |-> IF documents_before = 0 THEN None ELSE documents_before]
           /\ host = [documents |-> documents_before, calls |-> <<>>]
    /\ outcome = <<>>
    /\ NoUnitCall /\ NoThread /\ NoCreator
SpecProcess == InitProcess /\ [][NextProcess]_vars

\* Calls on one SolidWorksCreator after connect(), at most MaxCalls of them.
\* The arguments: a shape height, a sphere radius, a plane height or none.
MaxCalls == 4
ShapeHeights == {1, 2}
Radii == {1}
PlaneHeights == {None, 3}

CallCount == IF call = <<>> THEN 0 ELSE call.count

\* a call and whether it raised
Summary(made) ==
    IF made = <<>> THEN [op |-> "none", raised |-> FALSE]
    ELSE [op |-> made.op, raised |-> made.raised]

\* The call op with argument arg has ended in s: the fields of the creator
\* and the documents are those of s.  The record call keeps what the call
\* did, the fields before it and the two calls before it; last_mode_call is
\* the last of begin_stack and reset, plane_since_reset tells whether
\* create_plane has made a plane since construction or the last reset.
Return(op, arg, s) ==
    /\ CallCount < MaxCalls
    /\ model' = s.self.model
    /\ _stacking' = s.self._stacking
    /\ _stack_height' = s.self._stack_height
    /\ _last_shape_height' = s.self._last_shape_height
    /\ _plane_height' = s.self._plane_height
    /\ documents' = s.documents
    /\ call' = [op |-> op, arg |-> arg, raised |-> s.raised,
                new_documents |-> s.new_documents, doc |-> s.doc,
                sketch_z |-> s.sketch_z, below |-> s.below,
                sketch_no |-> s.sketch_no, axis |-> s.axis,
                before |-> [self |-> Self, last_mode_call |-> last_mode_call,
                            plane_since_reset |-> plane_since_reset],
                previous |-> <<Summary(call),
                               IF call = <<>> THEN Summary(call) ELSE call.previous[1]>>,
                count |-> CallCount + 1]
    /\ last_mode_call' = IF op \in {"begin_stack", "reset"} THEN op ELSE last_mode_call
    /\ plane_since_reset' = CASE op = "reset" -> FALSE
                              [] op = "create_plane" /\ ~s.raised -> TRUE
                              [] OTHER -> plane_since_reset
    /\ UNCHANGED <<parserVars, unitVars, threadVars, appVars>>

BeginStack == Return("begin_stack", None, begin_stack(Entered))
Reset == Return("reset", None, reset(Entered))
CreatePlane ==
    \E height \in PlaneHeights, plane_ok \in BOOLEAN :
        Return("create_plane", height, create_plane(Entered, height, plane_ok))
SetHeightToPlane == Return("set_height_to_plane", None, set_height_to_plane(Entered))
CreateSphere ==
    \E radius \in Radii, new_document_ok, plane_ok, revolve_ok \in BOOLEAN :
        Return("create_sphere", radius,
               create_sphere(Entered, radius, new_document_ok, plane_ok, revolve_ok))
CreateExtruded ==
    \E shape_height \in ShapeHeights, new_document_ok, plane_ok \in BOOLEAN :
        Return("create_extruded", shape_height,
               create_extruded(Entered, shape_height, new_document_ok, plane_ok))
Create2D ==
    \E new_document_ok \in BOOLEAN :
        Return("create_2d", None, create_2d(Entered, new_document_ok))

NextCreator ==
    \/ BeginStack \/ Reset \/ CreatePlane \/ SetHeightToPlane
    \/ CreateSphere \/ CreateExtruded \/ Create2D
InitCreator ==
    /\ prompt = <<>> /\ parsed = NoneShape /\ pc = "ready"
    /\ NoUnitCall /\ NoThread /\ NoApp /\ NoCreator
SpecCreator == InitCreator /\ [][NextCreator]_vars

\* the calls of the stacking interface alone: no create_plane and no
\* set_height_to_plane
NextStack == BeginStack \/ Reset \/ CreateSphere \/ CreateExtruded \/ Create2D
SpecStack == InitCreator /\ [][NextStack]_vars

\* Calls of extract_dimension: prompts of keywords and numbers in every
\* order, with keyword lists of parse_prompt.
MaxExtractWords == 4
ExtractVocab == {lit.height, lit.tall, lit.radius, word.n5, word.n10, word.n3cm}
ExtractKeywords == {keywords.cylinder.height, keywords.cylinder.radius, keywords.box.height}

\* the call of extract_dimension on the prompt with the keywords
ExtractDimension ==
    /\ pc = "ready"
    /\ meters' = extract_dimension(prompt, given_keywords)
    /\ pc' = "done"
    /\ UNCHANGED <<prompt, parsed, given_value, given_unit, given_keywords, detected>>
    /\ UNCHANGED <<threadVars, appVars, creatorVars>>

NextExtract == ExtractDimension
InitExtract ==
    /\ prompt \in Prompts(ExtractVocab, MaxExtractWords)
    /\ parsed = NoneShape /\ pc = "ready"
    /\ given_value = 0 /\ given_unit = <<>> /\ meters = 0 /\ detected = <<>>
    /\ given_keywords \in ExtractKeywords
    /\ NoThread /\ NoApp /\ NoCreator
SpecExtract == InitExtract /\ [][NextExtract]_vars
-----------------------------------------------------------------------------
(* Notions used by the properties.                                         *)

\* w is a substring of s
Occurs(w, s) ==
    \E i \in 1..(Len(s) - Len(w) + 1) : s[i] = w[1] /\ \A k \in 2..Len(w) : s[i + k - 1] = w[k]

NoDigit(s) == \A i \in 1..Len(s) : s[i] \notin Digits

\* the rules of the specification's table, in priority order: the trigger
\* words of each rule and the shape kinds it can return
RuleTable ==
    << [words |-> <<lit.cylinder, lit.cylindrical, lit.tube, lit.pipe>>, kinds |-> {"cylinder"}],
       [words |-> <<lit.cube>>,                                     kinds |-> {"cube"}],
       [words |-> <<lit.box, lit.rectangular, lit.prism, lit.block>>,     kinds |-> {"box"}],
       [words |-> <<lit.hexagon, lit.hex>>,                           kinds |-> {"hexagon"}],
       [words |-> <<lit.triangle>>,                                 kinds |-> {"triangle"}],
       [words |-> <<lit.pentagon>>,                                 kinds |-> {"pentagon"}],
       [words |-> <<lit.octagon>>,                                  kinds |-> {"octagon"}],
       [words |-> <<lit.ellipse, lit.oval>>,                          kinds |-> {"ellipse"}],
       [words |-> <<lit.circle>>,                                   kinds |-> {"circle", "cylinder"}],
       [words |-> <<lit.square>>,                                   kinds |-> {"square", "cube"}],
       [words |-> <<lit.rectangle, lit.rect>>,                        kinds |-> {"rectangle", "box"}],
       [words |-> <<lit.slot>>,                                     kinds |-> {"slot"}],
       [words |-> <<lit.washer, lit.ring, lit.donut, lit.annulus>>,       kinds |-> {"washer"}],
       [words |-> <<lit.l_dash_shape, lit.lshape, lit.l_sp_shape>>,     kinds |-> {"lshape"}],
       [words |-> <<lit.cross, lit.plus>>,                            kinds |-> {"cross"}],
       [words |-> <<lit.star>>,                                     kinds |-> {"star"}] >>

\* the rules with a trigger word in the lowercased prompt lp
RulesIn(lp) ==
    {r \in 1..Len(RuleTable) :
        \E n \in 1..Len(RuleTable[r].words) : Occurs(RuleTable[r].words[n], lp)}
MatchingRules(p) == RulesIn(Lower(p))
HasTrigger(p) == MatchingRules(p) # {}
\* the least element of a non-empty set of rule numbers, 0 for the empty set
Least(rs) == IF rs = {} THEN 0 ELSE CHOOSE r \in rs : \A m \in rs : r <= m
\* the matching rule of lowest priority number, 0 when no rule matches
MinRule(p) == Least(MatchingRules(p))

RequiredKeys(kind) ==
    CASE kind \in {"cylinder", "hexagon", "pentagon", "octagon"} -> {"radius", "height"}
      [] kind \in {"cube", "square"} -> {"size"}
      [] kind = "box"       -> {"width", "height", "depth"}
      [] kind = "triangle"  -> {"base", "tri_height", "depth"}
      [] kind = "ellipse"   -> {"major", "minor", "height"}
      [] kind = "circle"    -> {"radius"}
      [] kind = "rectangle" -> {"width", "length"}
      [] kind = "slot"      -> {"length", "width", "height"}
      [] kind = "washer"    -> {"outer", "inner", "height"}
      [] kind = "lshape"    -> {"width", "length", "thickness", "depth"}
      [] kind = "cross"     -> {"size", "thickness", "depth"}
      [] kind = "star"      -> {"outer", "inner", "points", "height"}

\* x thousandths of a meter
Milli(x) == x * (Meter \div 1000)

\* the literal defaults of the specification's table
DefaultParams(kind) ==
    CASE kind = "cylinder"  -> [radius |-> Milli(10), height |-> Milli(20)]
      [] kind = "cube"      -> [size |-> Milli(20)]
      [] kind = "box"       -> [width |-> Milli(20), height |-> Milli(20), depth |-> Milli(20)]
      [] kind \in {"hexagon", "pentagon", "octagon"}
                            -> [radius |-> Milli(10), height |-> Milli(10)]
      [] kind = "triangle"  -> [base |-> Milli(20), tri_height |-> Milli(20), depth |-> Milli(10)]
      [] kind = "ellipse"   -> [major |-> Milli(20), minor |-> Milli(10), height |-> Milli(10)]
      [] kind = "circle"    -> [radius |-> Milli(10)]
      [] kind = "square"    -> [size |-> Milli(20)]
      [] kind = "rectangle" -> [width |-> Milli(20), length |-> Milli(10)]
      [] kind = "slot"      -> [length |-> Milli(30), width |-> Milli(10), height |-> Milli(5)]
      [] kind = "washer"    -> [outer |-> Milli(20), inner |-> Milli(10), height |-> Milli(5)]
      [] kind = "lshape"    -> [width |-> Milli(20), length |-> Milli(20),
                                thickness |-> Milli(3), depth |-> Milli(10)]
      [] kind = "cross"     -> [size |-> Milli(20), thickness |-> Milli(5), depth |-> Milli(5)]
      [] kind = "star"      -> [outer |-> Milli(20), inner |-> Milli(8), points |-> 5,
                                height |-> Milli(5)]

\* the name of each rule in the keyword table, in priority order
RuleName ==
    <<"cylinder", "cube", "box", "hexagon", "triangle", "pentagon", "octagon", "ellipse",
      "circle", "square", "rectangle", "slot", "washer", "lshape", "cross", "star">>

\* the parameters of each rule that the positional fallback fills, in order
PositionalOrder(r) ==
    CASE r \in {1, 4, 6, 7} -> <<"radius", "height">>
      [] r \in {2, 10}      -> <<"size">>
      [] r = 3              -> <<"width", "height", "depth">>
      [] r = 5              -> <<"base", "tri_height", "depth">>
      [] r = 8              -> <<"major", "minor", "height">>
      [] r = 9              -> <<"radius">>
      [] r = 11             -> <<"width", "length">>
      [] r = 12             -> <<"length", "width", "height">>
      [] r = 13             -> <<"outer", "inner", "height">>
      [] r = 14             -> <<"width", "length", "thickness", "depth">>
      [] r = 15             -> <<"size", "thickness", "depth">>
      [] r = 16             -> <<"outer", "height">>

\* the number of literals a rule's positional fallback asks for
MinLiterals(r) == CASE r \in {1, 11} -> 2 [] r = 3 -> 3 [] OTHER -> 0

\* the value keyword extraction yields for a parameter of rule r (for a
\* radius also half the diameter), None when it yields none
KeywordValue(p, r, name) ==
    LET v == extract_dimension(p, keywords[RuleName[r]][name])
    IN  IF r \in {1, 9} /\ name = "radius" /\ ~Truthy(v)
        THEN LET diameter == extract_dimension(p, keywords[RuleName[r]].diameter)
             IN  IF Truthy(diameter) THEN diameter \div 2 ELSE v
        ELSE v

\* the parameter of the result that holds the parameter name of rule r (the
\* length of a rectangle promoted to a box is the depth of the box)
ResultParam(shape, r, name) ==
    IF r = 11 /\ shape.shape_type = "box" /\ name = "length" THEN shape.params.depth
    ELSE shape.params[name]

\* the literal default of parameter name of rule r
DefaultOf(r, name) == DefaultParams(RuleName[r])[name]

\* the prompt holds the dimension pattern of its rule (NxNxN for the box rule,
\* NxN for the rectangle rule)
HasDimensionPattern(p, r) ==
    \/ r = 3 /\ SearchAxBxC(Strip(Lower(p))).found
    \/ r = 11 /\ SearchAxB(Strip(Lower(p))).found

Max(a, b) == IF a >= b THEN a ELSE b

\* the unit tokens: the keys of the unit table
UnitTokens ==
    {lit.mm, lit.millimeter, lit.millimeters, lit.cm, lit.centimeter, lit.centimeters,
     lit.m, lit.meter, lit.meters, lit.in, lit.inch, lit.inches, lit.dquote,
     lit.ft, lit.foot, lit.feet}

\* the positions where a numeric literal of s starts
LiteralStarts(s) ==
    {i \in 1..Len(s) : IsDigit(s[i]) /\ (i = 1 \/ ~(IsDigit(s[i - 1]) \/ s[i - 1] = "."))}

\* the end of the token (a run without spaces and digits) that starts at j
RECURSIVE TokenEnd(_, _)
TokenEnd(s, j) ==
    IF j <= Len(s) /\ ~IsSpace(s[j]) /\ ~IsDigit(s[j]) THEN TokenEnd(s, j + 1) ELSE j

\* the token next to the literal that ends before position e
AdjacentToken(s, e) ==
    LET j == SkipSpaces(s, e)
    IN  SubSeq(s, j, TokenEnd(s, j) - 1)

\* the literal of p at position i, in meters, converted with the unit token
\* next to it if there is one and with the unit detected for the prompt
\* otherwise
LiteralMeters(p, i) ==
    LET s == Lower(p)
        e == NumberEnd(s, i)
        token == AdjacentToken(s, e)
    IN  convert_to_meters(float(s, i, e),
                          IF token \in UnitTokens THEN token ELSE detect_units(p))

LiteralValues(p) == {LiteralMeters(p, i) : i \in LiteralStarts(Lower(p))}

\* the positions where a word (a run without spaces) of s starts
WordStarts(s) == {i \in 1..Len(s) : ~IsSpace(s[i]) /\ (i = 1 \/ IsSpace(s[i - 1]))}

\* the end of the word that starts at i
RECURSIVE WordEnd(_, _)
WordEnd(s, i) == IF i <= Len(s) /\ ~IsSpace(s[i]) THEN WordEnd(s, i + 1) ELSE i

WordAt(s, i) == SubSeq(s, i, WordEnd(s, i) - 1)
HasWord(s, w) == \E i \in WordStarts(s) : WordAt(s, i) = w

\* the positions of the numbers of s that follow one of the words ws
NumbersAfter(s, ws) ==
    {SkipSpaces(s, WordEnd(s, i)) : i \in {k \in WordStarts(s) : WordAt(s, k) \in ws}}
        \cap LiteralStarts(s)

\* the extrusion keywords of the circle, square and rectangle rules
ExtrusionKeywords(r) ==
    IF r = 11 THEN <<lit.depth, lit.thick, lit.extrude, lit.d>>
    ELSE <<lit.height, lit.tall, lit.h, lit.thick, lit.extrude>>

\* the flat and the extruded kind of the circle, square and rectangle rules
FlatKind(r) == CASE r = 9 -> "circle" [] r = 10 -> "square" [] r = 11 -> "rectangle"
SolidKind(r) == CASE r = 9 -> "cylinder" [] r = 10 -> "cube" [] r = 11 -> "box"

\* the length of the rectangle described by p: the second number of the NxN
\* pattern, else the keyword value, else the second of two or more numbers,
\* else the default
RectangleLength(p) ==
    LET axb == SearchAxB(Strip(Lower(p)))
        numbers == extract_all_numbers(p)
        length == extract_dimension(p, keywords.rectangle.length)
    IN  Or(IF axb.found THEN convert_to_meters(axb.g2, detect_units(p))
           ELSE IF Len(numbers) >= 2 THEN Or(length, numbers[2])
           ELSE length,
           DefaultParams("rectangle").length)

-----------------------------------------------------------------------------
(* Properties.                                                             *)

\* C1: parse_prompt returns None exactly when the lowercased prompt contains
\* no trigger word, and every shape it returns carries all the required
\* parameter keys of its kind.
C1_NoneIffNoTrigger ==
    pc = "done" =>
        /\ (parsed = NoneShape) <=> ~HasTrigger(prompt)
        /\ parsed # NoneShape => RequiredKeys(parsed.shape_type) \subseteq DOMAIN parsed.params

C1_Witness ==
    /\ pc = "done"
    /\ Occurs(lit.ring, Lower(prompt))
    /\ MatchingRules(prompt) = {13}
    /\ parsed.shape_type = "washer"
    /\ DOMAIN parsed.params = {"outer", "inner", "height"}

\* C2: a prompt with trigger words of two or more rules is classified by the
\* matching rule of lowest priority number, wherever the words stand.
C2_FirstRuleWins ==
    pc = "done" =>
        LET rs == MatchingRules(prompt)
        IN  Cardinality(rs) >= 2 => parsed.shape_type \in RuleTable[Least(rs)].kinds

C2_Witness ==
    /\ pc = "done"
    /\ prompt = Join(<<lit.box, lit.cylindrical>>)
    /\ parsed.shape_type = "cylinder"

\* C6 (as claimed): a prompt with one of the words 2d, sketch, draw, flat
\* gives is_2d = TRUE for every shape kind, except for a circle, square or
\* rectangle prompt promoted to 3D.
C6_TwoDWordSetsFlag ==
    (pc = "done" /\ parsed # NoneShape
       /\ \E n \in 1..4 : Occurs(<<lit.two_d, lit.sketch, lit.draw, lit.flat>>[n], Lower(prompt))) =>
        \/ parsed.is_2d
        \/ /\ MinRule(prompt) \in {9, 10, 11}
           /\ parsed.shape_type \in {"cylinder", "cube", "box"}

\* C8: a prompt with a trigger word and no digit is parsed successfully and
\* every parameter has the literal default of the shape kind.
C8_NoDigitsAllDefaults ==
    (pc = "done" /\ NoDigit(prompt) /\ HasTrigger(prompt)) =>
        /\ parsed # NoneShape
        /\ parsed.params = DefaultParams(parsed.shape_type)

C8_Witness ==
    /\ pc = "done"
    /\ NoDigit(prompt)
    /\ Occurs(lit.height, prompt)
    /\ parsed.shape_type = "cube"
    /\ parsed.params.size = Milli(20)

\* C3 (as claimed): a parameter at position i for which keyword extraction
\* yields no value is the i-th numeric literal of the prompt, in meters,
\* whenever the prompt has at least i literals.
C3_FallbackWheneverEnoughLiterals ==
    (pc = "done" /\ parsed # NoneShape /\ ~HasDimensionPattern(prompt, MinRule(prompt))) =>
        LET r == MinRule(prompt)
            numbers == extract_all_numbers(prompt)
        IN  \A i \in 1..Len(PositionalOrder(r)) :
                (~Truthy(KeywordValue(prompt, r, PositionalOrder(r)[i])) /\ Len(numbers) >= i)
                    => ResultParam(parsed, r, PositionalOrder(r)[i]) = numbers[i]

\* C3 (amended): a parameter at position i for which keyword extraction
\* yields no value is the i-th entry of extract_all_numbers when that entry
\* is not zero (for the cube rule also when it is zero) and the prompt has at
\* least i literals and at least the number of literals its rule asks for
\* (2 for cylinder and rectangle, 3 for box); the three parameters of a box
\* prompt with exactly one literal are that literal if it is not zero; in
\* every other case the parameter has its literal default.
C3_PositionalFallback ==
    (pc = "done" /\ parsed # NoneShape /\ ~HasDimensionPattern(prompt, MinRule(prompt))) =>
        LET r == MinRule(prompt)
            numbers == extract_all_numbers(prompt)
        IN  \A i \in 1..Len(PositionalOrder(r)) :
                LET name == PositionalOrder(r)[i]
                    value == ResultParam(parsed, r, name)
                IN  IF r = 3 /\ Len(numbers) = 1
                    THEN value = Or(numbers[1], DefaultOf(r, name))
                    ELSE ~Truthy(KeywordValue(prompt, r, name)) =>
                            IF /\ Len(numbers) >= Max(i, MinLiterals(r))
                               /\ (Truthy(numbers[i]) \/ r = 2)
                            THEN value = numbers[i]
                            ELSE value = DefaultOf(r, name)

C3_Witness ==
    /\ pc = "done"
    /\ prompt = Join(<<lit.box, word.n10, word.n20, word.n20>>)
    /\ parsed.params = [width |-> Milli(10), height |-> Milli(20), depth |-> Milli(20)]

\* C4 (as claimed): every dimension of the result that is not a default is a
\* numeric literal of the prompt (or half of one for a radius, or 0.4 times
\* the outer radius for the inner radius of a star) converted with the unit
\* token next to the literal if there is one, and with the unit detected for
\* the whole prompt only if there is none.
C4_AdjacentUnitWins ==
    (pc = "done" /\ parsed # NoneShape) =>
        \A name \in DOMAIN parsed.params \ {"points"} :
            LET value == parsed.params[name]
                literals == LiteralValues(prompt)
            IN  \/ value = DefaultParams(parsed.shape_type)[name]
                \/ value \in literals
                \/ name = "radius" /\ \E v \in literals : value = v \div 2
                \/ /\ parsed.shape_type = "star" /\ name = "inner"
                   /\ value = (parsed.params.outer \div 10) * 4

\* C5 (as claimed): when the prompt of the cylinder or circle rule has a word
\* diameter, dia or d followed by a number N, and neither the word radius
\* nor the word r, the radius of the result is half of N in meters.
C5_DiameterHalved ==
    LET lp == Lower(prompt)
        diameters == NumbersAfter(lp, {lit.diameter, lit.dia, lit.d})
    IN  (/\ pc = "done" /\ MinRule(prompt) \in {1, 9}
         /\ ~HasWord(lp, lit.radius) /\ ~HasWord(lp, lit.r)
         /\ diameters # {})
            => \E n \in diameters : parsed.params.radius = LiteralMeters(prompt, n) \div 2

\* C7: a prompt of the circle, square or rectangle rule gives the extruded
\* kind (cylinder with radius and height, cube with size, box with width,
\* height = the depth value and depth = the length) with is_2d false exactly
\* when the extrusion keywords of the rule yield a non-zero value, and the
\* flat kind with is_2d true otherwise.
C7_ExtrusionMakesSolid ==
    (pc = "done" /\ MinRule(prompt) \in {9, 10, 11}) =>
        LET r == MinRule(prompt)
            extrusion == extract_dimension(prompt, ExtrusionKeywords(r))
        IN  IF Truthy(extrusion)
            THEN /\ parsed.shape_type = SolidKind(r)
                 /\ parsed.is_2d = FALSE
                 /\ DOMAIN parsed.params = RequiredKeys(SolidKind(r))
                 /\ r \in {9, 11} => parsed.params.height = extrusion
                 /\ r = 11 => parsed.params.depth = RectangleLength(prompt)
            ELSE /\ parsed.shape_type = FlatKind(r)
                 /\ parsed.is_2d = TRUE
                 /\ DOMAIN parsed.params = RequiredKeys(FlatKind(r))

\* a rectangle with a depth is parsed to a box
C7_Witness ==
    /\ pc = "done"
    /\ prompt = Join(<<lit.rectangle, word.n2x3, lit.depth, word.n5>>)
    /\ parsed.shape_type = "box"
    /\ parsed.params = [width |-> Milli(2), height |-> Milli(5), depth |-> Milli(3)]
    /\ parsed.is_2d = FALSE

\* C9 (as claimed): a box prompt with A x B x C has width, height and depth
\* A, B and C in the unit detected for the prompt, and a rectangle prompt
\* with A x B has width and length A and B, whatever the keywords and the
\* other numbers say.
C9_PatternValuesAsWritten ==
    LET lp == Strip(Lower(prompt))
        units == detect_units(prompt)
        axbxc == SearchAxBxC(lp)
        axb == SearchAxB(lp)
    IN  /\ (pc = "done" /\ MinRule(prompt) = 3 /\ axbxc.found) =>
                /\ parsed.params.width = convert_to_meters(axbxc.g1, units)
                /\ parsed.params.height = convert_to_meters(axbxc.g2, units)
                /\ parsed.params.depth = convert_to_meters(axbxc.g3, units)
        /\ (pc = "done" /\ MinRule(prompt) = 11 /\ axb.found) =>
                /\ ResultParam(parsed, 11, "width") = convert_to_meters(axb.g1, units)
                /\ ResultParam(parsed, 11, "length") = convert_to_meters(axb.g2, units)

\* C9 (amended): the same, with the default of the parameter in place of a
\* zero of the pattern.
C9_DimensionPattern ==
    LET lp == Strip(Lower(prompt))
        units == detect_units(prompt)
        axbxc == SearchAxBxC(lp)
        axb == SearchAxB(lp)
    IN  /\ (pc = "done" /\ MinRule(prompt) = 3 /\ axbxc.found) =>
                /\ parsed.params.width = Or(convert_to_meters(axbxc.g1, units), DefaultOf(3, "width"))
                /\ parsed.params.height = Or(convert_to_meters(axbxc.g2, units), DefaultOf(3, "height"))
                /\ parsed.params.depth = Or(convert_to_meters(axbxc.g3, units), DefaultOf(3, "depth"))
        /\ (pc = "done" /\ MinRule(prompt) = 11 /\ axb.found) =>
                /\ ResultParam(parsed, 11, "width")
                       = Or(convert_to_meters(axb.g1, units), DefaultOf(11, "width"))
                /\ ResultParam(parsed, 11, "length")
                       = Or(convert_to_meters(axb.g2, units), DefaultOf(11, "length"))

\* the pattern in centimeters wins over the width keyword
C9_Witness ==
    /\ pc = "done"
    /\ prompt = Join(<<lit.box, lit.width, word.n2x3x4, lit.cm>>)
    /\ parsed.params = [width |-> Milli(20), height |-> Milli(30), depth |-> Milli(40)]

\* the value the keyword inner yields
InnerValue(p) == extract_dimension(p, <<lit.inner>>)

\* the number of points the prompt asks for, 5 if it asks for none
PointCount(p) ==
    LET points_match == SearchPoints(Strip(Lower(p)))
    IN  IF points_match.found THEN points_match.g1 ELSE 5

\* C10 (as claimed): a star has the points of "<N> point", 5 without one, and
\* its inner radius is the value of the keyword inner when there is one and
\* 0.4 times the outer radius of the result otherwise.
C10_InnerValueAsExtracted ==
    (pc = "done" /\ MinRule(prompt) = 16) =>
        /\ parsed.params.points = PointCount(prompt)
        /\ parsed.params.inner =
               IF InnerValue(prompt) # None THEN InnerValue(prompt)
               ELSE (parsed.params.outer \div 10) * 4

\* C10 (amended): the same, where a value of zero counts as no value.
C10_StarParameters ==
    (pc = "done" /\ MinRule(prompt) = 16) =>
        /\ parsed.params.points = PointCount(prompt)
        /\ parsed.params.inner =
               IF Truthy(InnerValue(prompt)) THEN InnerValue(prompt)
               ELSE (parsed.params.outer \div 10) * 4

\* a star with six points and the default inner radius
C10_Witness ==
    /\ pc = "done"
    /\ prompt = Join(<<lit.star, word.n6, lit.point, lit.outer, word.n10mm>>)
    /\ parsed.params.points = 6
    /\ parsed.params.outer = Milli(10)
    /\ parsed.params.inner = Milli(4)

\* C20 (as claimed): detect_units answers by a fixed priority over the
\* substrings of the lowercased prompt: inches for inch, inches, the double
\* quote or " in "; else centimeters for cm or centimeter; else feet for a
\* token of the foot family (ft, foot, feet); else millimeters.
C20_UnitPriority ==
    LET lp == Lower(prompt)
    IN  pc = "done" =>
            detected = IF \E w \in {lit.inch, lit.inches, lit.dquote, lit.sp_in_sp} : Occurs(w, lp)
                       THEN lit.in
                       ELSE IF \E w \in {lit.cm, lit.centimeter} : Occurs(w, lp) THEN lit.cm
                       ELSE IF \E w \in {lit.ft, lit.foot, lit.feet} : Occurs(w, lp) THEN lit.ft
                       ELSE lit.mm

\* the factor of each unit spelling, in units of 1/Meter (a multiple of
\* FloatScale), and the factor of the millimeter for every other string
SpellingFactor(u) ==
    CASE u \in {lit.mm, lit.millimeter, lit.millimeters} -> Milli(1)
      [] u \in {lit.cm, lit.centimeter, lit.centimeters} -> Milli(10)
      [] u \in {lit.m, lit.meter, lit.meters} -> Milli(1000)
      [] u \in {lit.in, lit.inch, lit.inches, lit.dquote} -> (Milli(1) \div 10) * 254
      [] u \in {lit.ft, lit.foot, lit.feet} -> (Milli(1) \div 10) * 3048
      [] OTHER -> Milli(1)

\* C18 (as claimed): convert_to_meters multiplies the value by the factor of
\* the unit spelling, whatever its case, and by the factor of the millimeter
\* for every other unit string; with the unit m it is the identity.
C18_FactorOfSpelling ==
    pc = "done" =>
        /\ meters = given_value * (SpellingFactor(Lower(given_unit)) \div FloatScale)
        /\ given_unit = lit.m => meters \div (Meter \div FloatScale) = given_value

\* C18 (amended): the same, for the unit string without the white space
\* around it and the dots behind it.
C18_FactorOfUnit ==
    pc = "done" =>
        /\ meters = given_value * (SpellingFactor(RStripDot(Strip(Lower(given_unit)))) \div FloatScale)
        /\ given_unit = lit.m => meters \div (Meter \div FloatScale) = given_value

\* two and a half inches are 0.0635 meters
C18_Witness ==
    /\ pc = "done"
    /\ given_value = 5 * (FloatScale \div 2)
    /\ given_unit = <<"I", "n", "c", "h">>
    /\ meters = (Milli(1) \div 10) * 635

\* the shape kinds of the parser
ShapeKinds ==
    {"cylinder", "cube", "box", "hexagon", "triangle", "pentagon", "octagon", "ellipse",
     "circle", "square", "rectangle", "slot", "washer", "lshape", "cross", "star"}

Range(seq) == {seq[i] : i \in DOMAIN seq}

\* C15 (as claimed): for every recognized prompt that contains 2d or sketch,
\* process_prompt creates the sketch and calls no extrusion, whatever the
\* kind of the shape.
C15_SketchOnly ==
    (/\ pc = "done" /\ parsed # NoneShape /\ outcome[1]
     /\ Occurs(lit.two_d, Lower(prompt)) \/ Occurs(lit.sketch, Lower(prompt)))
        => /\ "InsertSketch" \in Range(host.calls)
           /\ "FeatureExtrusion2" \notin Range(host.calls)

\* C17: when parse_prompt returns None, process_prompt returns False with
\* the message for an unknown shape and calls nothing on the host: no new
\* document, sw.model as before.
C17_UnknownShape ==
    [][(pc = "ready" /\ pc' = "done" /\ parsed' = NoneShape)
          => /\ outcome' = <<FALSE, UnknownShapeMessage>>
             /\ host' = host
             /\ sw' = sw]_vars

\* a prompt without a shape word, with document 1 open before the call
C17_Witness ==
    /\ pc = "done"
    /\ prompt = Join(<<word.sphere, word.n10>>)
    /\ parsed = NoneShape
    /\ outcome = <<FALSE, UnknownShapeMessage>>
    /\ sw.model = 1 /\ host = [documents |-> 1, calls |-> <<>>]

\* the last call was a 3D create_*
Called3D == call # <<>> /\ call.op \in {"create_sphere", "create_extruded"}

\* what a sphere adds to the height of its sketch
CenterOffset == IF call.op = "create_sphere" THEN call.arg ELSE 0

Made(op) == [op |-> op, raised |-> FALSE]

\* C11 (as claimed): without plane calls, whenever a 3D create_* opens its
\* sketch in a document, the height of the sketch (for a sphere: minus the
\* radius) is the sum of the heights of the 3D shapes created before in
\* that document.
C11_StackedOnTop ==
    (Called3D /\ call.sketch_z # None) => call.sketch_z - CenterOffset = call.below

\* the last call is the first 3D create_* after a reset, with no begin_stack
\* in between
NextAfterReset ==
    /\ call.before.last_mode_call = "reset"
    /\ \/ call.previous[1].op = "reset"
       \/ /\ call.previous[2].op = "reset"
          /\ call.previous[1].op \notin {"create_sphere", "create_extruded"}

PlaneRecorded ==
    /\ (call # <<>> /\ call.op = "create_plane" /\ ~call.raised)
          => /\ _plane_height = IF call.arg = None THEN call.before.self._stack_height
                                ELSE call.arg
             /\ _stacking
             /\ _stack_height = call.before.self._stack_height
             /\ _last_shape_height = call.before.self._last_shape_height
    /\ (call # <<>> /\ call.op = "set_height_to_plane" /\ call.previous[1] = Made("create_plane"))
          => ~call.raised /\ _stack_height = call.before.self._plane_height

\* the last three calls were create_plane, set_height_to_plane and a 3D
\* create_*, the first two without raising
OnPlane ==
    /\ Called3D
    /\ call.previous = <<Made("set_height_to_plane"), Made("create_plane")>>

\* C13 (as claimed): create_plane records the height, set_height_to_plane
\* moves the stack height there, and the next 3D create_* reuses the
\* document and opens its sketch at exactly the height of the plane.
C13_SketchAtPlaneHeight ==
    /\ PlaneRecorded
    /\ OnPlane => /\ call.new_documents = 0
                  /\ call.sketch_z # None
                        => /\ call.doc = call.before.self.model
                           /\ call.sketch_z = call.before.self._plane_height

\* C13 (amended): the same, a sphere opening its sketch at the height of
\* the plane plus its radius.
C13_PlaneWorkflow ==
    /\ PlaneRecorded
    /\ OnPlane => /\ call.new_documents = 0
                  /\ call.sketch_z # None
                        => /\ call.doc = call.before.self.model
                           /\ call.sketch_z = call.before.self._plane_height + CenterOffset

\* a cylinder on a plane at height 3
C13_Witness ==
    /\ OnPlane /\ call.op = "create_extruded" /\ ~call.raised
    /\ call.before.self._plane_height = 3
    /\ call.sketch_z = 3 /\ call.doc = 1 /\ call.new_documents = 0

\* C14: create_plane raises when there is no model, set_height_to_plane
\* raises when no plane was created since construction or the last reset,
\* and in both cases the five fields of the creator are as before the call.
C14_PlaneErrors ==
    /\ (call # <<>> /\ call.op = "create_plane" /\ call.before.self.model = None)
          => call.raised /\ Self = call.before.self
    /\ (call # <<>> /\ call.op = "set_height_to_plane" /\ ~call.before.plane_since_reset)
          => call.raised /\ Self = call.before.self

\* set_height_to_plane after a plane was created and cleared by reset
C14_Witness ==
    /\ call # <<>> /\ call.op = "set_height_to_plane" /\ call.raised
    /\ call.previous = <<Made("reset"), Made("create_plane")>>
    /\ model # None /\ Self = call.before.self

\* one of the two patterns of the keyword matches somewhere in s
KeywordMatches(s, keyword) == Search1(s, keyword).found \/ Search2(s, keyword).found

\* the value of a keyword that matches: that of its keyword-first match if
\* there is one, else that of its value-first match
MatchedValue(p, keyword) ==
    LET s == Lower(p)
        m == IF Search1(s, keyword).found THEN Search1(s, keyword) ELSE Search2(s, keyword)
    IN  convert_to_meters(m.value, IF m.unit # <<>> THEN m.unit ELSE detect_units(p))

\* C21: extract_dimension returns the value of the first keyword of the
\* list with a match of either pattern, the keyword-first match before the
\* value-first one, wherever the later keywords are; None when no keyword
\* matches.
C21_FirstKeywordWins ==
    pc = "done" =>
        LET hits == {i \in 1..Len(given_keywords) :
                        KeywordMatches(Lower(prompt), given_keywords[i])}
        IN  IF hits = {} THEN meters = None
            ELSE meters = MatchedValue(prompt, given_keywords[Leftmost(hits)])

\* 'tall 5 height 3cm': height is first in the list and its keyword-first
\* match gives 3 cm, although the match of tall and the value-first match
\* '5 height' start before it
C21_Witness ==
    /\ pc = "done"
    /\ given_keywords = keywords.cylinder.height
    /\ prompt = Join(<<lit.tall, word.n5, lit.height, word.n3cm>>)
    /\ meters = Milli(30)

\* the height of the shape of the last call: twice the radius of a sphere,
\* the height, depth or size of an extruded shape
ShapeHeight == IF call.op = "create_sphere" THEN 2 * call.arg ELSE call.arg

\* the solid the host made last in the document of the call
LastSolid == documents[call.doc].solids[Len(documents[call.doc].solids)]

\* the last call was a 3D create_*, its sketch is at base (plus the radius
\* of a sphere) and, if it returned, the stack is at base plus the height of
\* the solid it made
AdvancedFrom(base) ==
    /\ call.sketch_z # None => call.sketch_z = base + CenterOffset
    /\ ~call.raised => /\ _stack_height = base + ShapeHeight
                       /\ _last_shape_height = ShapeHeight
                       /\ LastSolid = ShapeHeight

\* C22 (as claimed): a 3D create_* opens its sketch at the stack height
\* before the call (a sphere: plus its radius) and on return the stack
\* height has grown by the height of the shape (a sphere: twice its radius).
C22_GrowsFromHeightBefore ==
    Called3D => AdvancedFrom(call.before.self._stack_height)

\* C22 (amended): the same from the stack height the call works with: the
\* one before the call when it reuses the document, 0 when it creates one.
C22_SketchAndAdvance ==
    Called3D => AdvancedFrom(IF call.new_documents = 0
                             THEN call.before.self._stack_height ELSE 0)

\* a sphere of radius 1 stacked on a shape of height 1
C22_Witness ==
    /\ call # <<>> /\ call.op = "create_sphere" /\ ~call.raised
    /\ call.new_documents = 0 /\ call.before.self._stack_height = 1
    /\ call.sketch_z = 2 /\ _stack_height = 3 /\ _last_shape_height = 2

\* C23: the sketch in whose name create_sphere selects Line1 as the axis of
\* the revolve is the sketch that call has opened.
C23_AxisInOwnSketch ==
    (call # <<>> /\ call.op = "create_sphere" /\ call.axis # None)
        => call.axis = call.sketch_no

\* a sphere stacked on two shapes: its sketch is the third of the document
C23_Witness ==
    /\ call # <<>> /\ call.op = "create_sphere" /\ ~call.raised
    /\ call.new_documents = 0 /\ Len(documents[call.doc].solids) = 3
    /\ call.axis = 3 /\ call.sketch_no = 3

\* the stacking fields of the creator are those before the last call
CursorAsBefore ==
    /\ _stacking = call.before.self._stacking
    /\ _stack_height = call.before.self._stack_height
    /\ _last_shape_height = call.before.self._last_shape_height
    /\ _plane_height = call.before.self._plane_height

C25_PlaneImpliesStacking == _plane_height # None => _stacking

\* create_plane outside stacking mode: the plane is active and stacking on
C25_Witness ==
    /\ call # <<>> /\ call.op = "create_plane" /\ ~call.raised
    /\ ~call.before.self._stacking
    /\ _plane_height = 3 /\ _stacking

\* C26: a 3D create_* in stacking mode on an existing document that raises
\* (InsertRefPlane or FeatureRevolve2 gave None) leaves the stacking fields
\* as before.
C26_FailureKeepsCursor ==
    (Called3D /\ call.raised /\ call.before.self._stacking
     /\ call.before.self.model # None)
        => CursorAsBefore /\ call.new_documents = 0 /\ model = call.before.self.model

\* the revolve of a sphere stacked at height 2 fails after its sketch was
\* opened at height 3
C26_Witness ==
    /\ call # <<>> /\ call.op = "create_sphere" /\ call.raised
    /\ call.before.self._stacking /\ call.before.self.model # None
    /\ call.sketch_z = 3 /\ _stack_height = 2

\* C27: for every ParsedShape parse_prompt returns, the shape type has a
\* branch in process_prompt and params holds every key the branch reads, so
\* process_prompt returns the name of the shape or the failure of new_part.
C27_DispatchTotal ==
    (pc = "done" /\ parsed # NoneShape)
        => /\ parsed.shape_type \in DispatchedTypes
           /\ Range(ParamsRead(parsed)) \subseteq DOMAIN parsed.params
           /\ \/ outcome = <<TRUE, ShapeName(parsed)>>
              \/ outcome = <<FALSE, "Failed to create new part">>

\* an lshape, whose branch reads four keys, created
C27_Witness ==
    /\ pc = "done" /\ parsed # NoneShape /\ parsed.shape_type = "lshape"
    /\ outcome = <<TRUE, "L-Shape">>
    /\ DOMAIN parsed.params = {"width", "length", "thickness", "depth"}
=============================================================================
